---------------------------- MODULE Spec2Model ----------------------------
(***************************************************************************)
(* Hierarchical scheduling analyzer and simulator (core-scheduler-sim).    *)
(*                                                                         *)
(* The simulator (runSimulation) is modelled as a state machine: the       *)
(* variable "state" is the SimulationState object of the source, one       *)
(* action per event handler, each action being one whole iteration of the  *)
(* main loop (sort, shift, handler, scheduleNextTask).  The analyzer       *)
(* (analyzeSystem) is modelled by operators computed as the source         *)
(* computes them, one action per root component it analyzes.               *)
(*                                                                         *)
(* Numbers.  Times of the simulation are integers: the models drawn in     *)
(* Init have parameters for which every time the source computes is an     *)
(* integer.  alpha, delta and performanceFactor are rationals [n, d];      *)
(* Undefined (d = 0) stands for a field that is absent from the JSON.      *)
(* A priority of 0 stands for an absent priority (the source reads it as   *)
(* "priority || 0"); a period or minimumInterArrivalTime of 0 stands for   *)
(* an absent field (the source tests the field for truthiness).            *)
(*                                                                         *)
(* JavaScript Maps are sequences of [key, value] records in insertion      *)
(* order, which is the order Map.forEach visits them in.                   *)
(* Array.prototype.sort is stable (ECMAScript 2019).                       *)
(***************************************************************************)
EXTENDS Integers, Sequences, FiniteSets, TLC

(***************************************************************************)
(* Bounds of the model.                                                    *)
(***************************************************************************)
\* simulationTime is drawn from 1..MaxHorizon
MaxHorizon == 12
\* instanceId is drawn from 0..InstanceIdRange-1 (the source: 0..999999)
InstanceIdRange == 2
\* the events array can hold at most MaxEvents events (memory)
MaxEvents == 30
\* the wcets of the task sets the analyzer is run on are drawn from 1..MaxWcet
MaxWcet == 6
\* the delta of a component the feasibility tests are called on is drawn
\* from 0..MaxTestDelta, the wcet of its first task from 1..MaxTestWcet
MaxTestDelta == 3
MaxTestWcet == 3

\* the demand bound functions are applied to t = 0, 1, ..., MaxDemandTime
MaxDemandTime == 13

(***************************************************************************)
(* Rationals.                                                              *)
(***************************************************************************)
Rat(n, d) == [n |-> n, d |-> d]

Undefined == Rat(0, 0)

IsDefined(r) == r.d # 0

RMul(a, b) == Rat(a.n * b.n, a.d * b.d)

RDiv(a, b) == Rat(a.n * b.d, a.d * b.n)

RAdd(a, b) == Rat(a.n * b.d + b.n * a.d, a.d * b.d)

RSub(a, b) == Rat(a.n * b.d - b.n * a.d, a.d * b.d)

\* denominators are kept positive
RLess(a, b) == a.n * b.d < b.n * a.d

RLeq(a, b) == a.n * b.d <= b.n * a.d

RInt(k) == Rat(k, 1)

\* the integer a rational with an integer value stands for
Ticks(r) == r.n \div r.d

(***************************************************************************)
(* JavaScript Map: a sequence of [key, value] in insertion order.          *)
(***************************************************************************)
MapHas(m, k) == \E i \in DOMAIN m : m[i].key = k

MapGet(m, k) == m[CHOOSE i \in DOMAIN m : m[i].key = k].value

MapSet(m, k, v) ==
  IF MapHas(m, k)
  THEN [i \in DOMAIN m |-> IF m[i].key = k THEN [key |-> k, value |-> v] ELSE m[i]]
  ELSE Append(m, [key |-> k, value |-> v])

(***************************************************************************)
(* Data model (types/system): Core, Task, Component, SystemModel.          *)
(***************************************************************************)
Core(id, performanceFactor) ==
  [id |-> id, performanceFactor |-> performanceFactor]

PeriodicTask(id, wcet, period, deadline, priority) ==
  [id |-> id, type |-> "periodic", wcet |-> wcet, deadline |-> deadline,
   priority |-> priority, period |-> period, minimumInterArrivalTime |-> 0]

SporadicTask(id, wcet, mit, deadline, priority) ==
  [id |-> id, type |-> "sporadic", wcet |-> wcet, deadline |-> deadline,
   priority |-> priority, period |-> 0, minimumInterArrivalTime |-> mit]

\* corePrefixes: the ids of the cores c for which id.startsWith("core-" + c)
\* hasChildList: the childComponents field is present (it may be empty)
Component(id, corePrefixes, alg, alpha, delta, tasks, hasChildList, children) ==
  [id |-> id, corePrefixes |-> corePrefixes, schedulingAlgorithm |-> alg,
   alpha |-> alpha, delta |-> delta, tasks |-> tasks,
   hasChildList |-> hasChildList, childComponents |-> children]

SystemModel(cores, rootComponents) ==
  [cores |-> cores, rootComponents |-> rootComponents]

\* c.id.startsWith(`core-${core.id}`)
StartsWithCore(c, core) == core.id \in c.corePrefixes

(***************************************************************************)
(* Sequence helpers.                                                       *)
(***************************************************************************)
RECURSIVE Flatten(_)
Flatten(ss) == IF ss = <<>> THEN <<>> ELSE Head(ss) \o Flatten(Tail(ss))

\* Array.prototype.sort with a comparator "a.key - b.key": a stable sort of
\* a sequence of [key, item] records by key
RECURSIVE SortKeyed(_)
SortKeyed(s) ==
  IF s = <<>> THEN <<>>
  ELSE LET init == SortKeyed(SubSeq(s, 1, Len(s) - 1))
           e == s[Len(s)]
           k == Cardinality({i \in DOMAIN init : init[i].key <= e.key})
       IN SubSeq(init, 1, k) \o <<e>> \o SubSeq(init, k + 1, Len(init))

Items(s) == [i \in DOMAIN s |-> s[i].item]

(***************************************************************************)
(* Simulator: SimulationEvent, TaskInstance, SimulationState.              *)
(* The field "job" of a TaskInstance is the identity of the JavaScript     *)
(* object (the number of the arrival that created it); the field "job" of  *)
(* an event is the job whose arrival or dispatch pushed the event.  The    *)
(* source reads neither: no operator below reads them.                     *)
(***************************************************************************)
SimulationEvent(time, type, taskId, componentId, job) ==
  [time |-> time, type |-> type, taskId |-> taskId,
   componentId |-> componentId, job |-> job]

\* activeTask = NoTask stands for activeTask = null
NoTask ==
  [taskId |-> "", instanceId |-> 0 - 1, componentId |-> "", arrivalTime |-> 0,
   executionTime |-> 0, remainingTime |-> 0, deadline |-> 0, priority |-> 0,
   job |-> 0]

\* the state runSimulation constructs
InitialState ==
  [currentTime |-> 0, events |-> <<>>, readyQueue |-> <<>>,
   activeTask |-> NoTask, completedTasks |-> <<>>,
   responseTimeByTask |-> <<>>, missedDeadlinesByTask |-> <<>>,
   executionTimeByComponent |-> <<>>, resourceAvailableByComponent |-> <<>>]

\* the roots the source finds for a core
RootsOfCore(systemModel, core) ==
  SelectSeq(systemModel.rootComponents, LAMBDA c : StartsWithCore(c, core))

TasksOfComponent(component, core) ==
  [i \in DOMAIN component.tasks |->
     [task |-> component.tasks[i], component |-> component, core |-> core]]

\* the tasks of a root and of its direct children
TasksOfRoot(root, core) ==
  TasksOfComponent(root, core) \o
  (IF root.hasChildList
   THEN Flatten([j \in DOMAIN root.childComponents |->
                   TasksOfComponent(root.childComponents[j], core)])
   ELSE <<>>)

getAllTasks(systemModel) ==
  Flatten([c \in DOMAIN systemModel.cores |->
    LET core == systemModel.cores[c]
        roots == RootsOfCore(systemModel, core)
    IN Flatten([r \in DOMAIN roots |-> TasksOfRoot(roots[r], core)])])

\* <<>> stands for null; the source visits cores, roots, the root's tasks
\* and then its direct children's tasks in the order of getAllTasks and
\* returns the first task with the id
findTaskById(systemModel, taskId) ==
  LET all == getAllTasks(systemModel)
      hits == SelectSeq(all, LAMBDA e : e.task.id = taskId)
  IN IF hits = <<>> THEN <<>> ELSE <<Head(hits)>>

\* <<>> stands for null
findComponentById(systemModel, componentId) ==
  LET roots == SelectSeq(systemModel.rootComponents, LAMBDA c : c.id = componentId)
      children ==
        Flatten([r \in DOMAIN systemModel.rootComponents |->
          LET root == systemModel.rootComponents[r]
          IN IF root.hasChildList
             THEN SelectSeq(root.childComponents, LAMBDA c : c.id = componentId)
             ELSE <<>>])
  IN IF roots # <<>> THEN <<Head(roots)>>
     ELSE IF children # <<>> THEN <<Head(children)>>
     ELSE <<>>

\* the resourceAvailableByComponent map after the call
RECURSIVE initializeComponentResourceAvailability(_, _)
RECURSIVE InitializeChildren(_, _, _)
InitializeChildren(children, i, avail) ==
  IF i > Len(children) THEN avail
  ELSE LET child == children[i]
           a1 == MapSet(avail, child.id, FALSE)
           a2 == IF child.hasChildList
                 THEN initializeComponentResourceAvailability(child, a1)
                 ELSE a1
       IN InitializeChildren(children, i + 1, a2)

initializeComponentResourceAvailability(component, avail) ==
  LET a1 == MapSet(avail, component.id, TRUE)
  IN IF component.hasChildList
     THEN InitializeChildren(component.childComponents, 1, a1)
     ELSE a1

RECURSIVE InitializeRoots(_, _, _)
InitializeRoots(roots, i, avail) ==
  IF i > Len(roots) THEN avail
  ELSE InitializeRoots(roots, i + 1,
         initializeComponentResourceAvailability(roots[i], avail))

\* runSimulation up to its calls of generateInitialEvents
StateAfterSetup(systemModel) ==
  LET all == getAllTasks(systemModel)
      Fill(m, k, v) == MapSet(m, all[k].task.id, v)
      FillAll[k \in 0..Len(all)] ==
        IF k = 0 THEN [missed |-> <<>>, times |-> <<>>]
        ELSE [missed |-> Fill(FillAll[k - 1].missed, k, 0),
              times |-> Fill(FillAll[k - 1].times, k, <<>>)]
  IN [InitialState EXCEPT
        !.missedDeadlinesByTask = FillAll[Len(all)].missed,
        !.responseTimeByTask = FillAll[Len(all)].times,
        !.resourceAvailableByComponent =
           InitializeRoots(systemModel.rootComponents, 1, <<>>)]

(***************************************************************************)
(* Event handlers: each gives the SimulationState after the call.          *)
(***************************************************************************)
\* an arrival handler whose jobs execute for the wcet itself, whatever the
\* performance factor of the core
handleTaskArrivalUnscaled(event, systemModel, state, simulationTime, instanceId, job) ==
  LET taskInfo == findTaskById(systemModel, event.taskId)
  IN IF taskInfo = <<>> THEN state
     ELSE
       LET task == taskInfo[1].task
           component == taskInfo[1].component
           core == taskInfo[1].core
           adjustedExecutionTime == task.wcet
           taskInstance ==
             [taskId |-> task.id, instanceId |-> instanceId,
              componentId |-> component.id, arrivalTime |-> event.time,
              executionTime |-> adjustedExecutionTime,
              remainingTime |-> adjustedExecutionTime,
              deadline |-> event.time + task.deadline,
              priority |-> task.priority, job |-> job]
           deadlineEvent ==
             SimulationEvent(taskInstance.deadline, "deadline", task.id,
                             component.id, job)
           step ==
             IF task.period # 0 THEN task.period
             ELSE task.minimumInterArrivalTime
           nextArrivalTime == event.time + step
           nextArrival ==
             IF step # 0 /\ nextArrivalTime < simulationTime
             THEN <<SimulationEvent(nextArrivalTime, "arrival", task.id,
                                    component.id, 0)>>
             ELSE <<>>
       IN [state EXCEPT
             !.readyQueue = Append(@, taskInstance),
             !.events = Append(@, deadlineEvent) \o nextArrival]

\* instanceId is the value Math.floor(Math.random() * 1000000) returns, job
\* the identity of the TaskInstance object created
handleTaskArrival(event, systemModel, state, simulationTime, instanceId, job) ==
  LET taskInfo == findTaskById(systemModel, event.taskId)
  IN IF taskInfo = <<>> THEN state
     ELSE
       LET task == taskInfo[1].task
           component == taskInfo[1].component
           core == taskInfo[1].core
           \* task.wcet / (core?.performanceFactor || 1)
           adjustedExecutionTime ==
             Ticks(RDiv(RInt(task.wcet),
                        IF IsDefined(core.performanceFactor)
                           /\ core.performanceFactor.n # 0
                        THEN core.performanceFactor ELSE RInt(1)))
           taskInstance ==
             [taskId |-> task.id, instanceId |-> instanceId,
              componentId |-> component.id, arrivalTime |-> event.time,
              executionTime |-> adjustedExecutionTime,
              remainingTime |-> adjustedExecutionTime,
              deadline |-> event.time + task.deadline,
              priority |-> task.priority, job |-> job]
           deadlineEvent ==
             SimulationEvent(taskInstance.deadline, "deadline", task.id,
                             component.id, job)
           step ==
             IF task.period # 0 THEN task.period
             ELSE task.minimumInterArrivalTime
           nextArrivalTime == event.time + step
           nextArrival ==
             IF step # 0 /\ nextArrivalTime < simulationTime
             THEN <<SimulationEvent(nextArrivalTime, "arrival", task.id,
                                    component.id, 0)>>
             ELSE <<>>
       IN [state EXCEPT
             !.readyQueue = Append(@, taskInstance),
             !.events = Append(@, deadlineEvent) \o nextArrival]

\* a deadline handler that counts one miss for every ready or active
\* instance of the task
handleTaskDeadlinePerInstance(event, state) ==
  LET instances ==
        Len(SelectSeq(state.readyQueue, LAMBDA t : t.taskId = event.taskId))
        + (IF state.activeTask # NoTask /\ state.activeTask.taskId = event.taskId
           THEN 1 ELSE 0)
      missedCount ==
        IF MapHas(state.missedDeadlinesByTask, event.taskId)
        THEN MapGet(state.missedDeadlinesByTask, event.taskId)
        ELSE 0
  IN [state EXCEPT !.missedDeadlinesByTask =
        MapSet(@, event.taskId, missedCount + instances)]

\* a deadline handler that also aborts the late job: it removes the ready
\* jobs of the task from the ready queue
handleTaskDeadlineAbortingJob(event, state) ==
  LET isActive ==
        state.activeTask # NoTask /\ state.activeTask.taskId = event.taskId
      isInReadyQueue ==
        \E i \in DOMAIN state.readyQueue :
          state.readyQueue[i].taskId = event.taskId
  IN IF isActive \/ isInReadyQueue
     THEN LET missedCount ==
                IF MapHas(state.missedDeadlinesByTask, event.taskId)
                THEN MapGet(state.missedDeadlinesByTask, event.taskId)
                ELSE 0
          IN [state EXCEPT
                !.missedDeadlinesByTask =
                   MapSet(@, event.taskId, missedCount + 1),
                !.readyQueue =
                   SelectSeq(@, LAMBDA t : t.taskId # event.taskId)]
     ELSE state

handleTaskDeadline(event, state) ==
  LET isActive ==
        state.activeTask # NoTask /\ state.activeTask.taskId = event.taskId
      isInReadyQueue ==
        \E i \in DOMAIN state.readyQueue :
          state.readyQueue[i].taskId = event.taskId
  IN IF isActive \/ isInReadyQueue
     THEN LET missedCount ==
                IF MapHas(state.missedDeadlinesByTask, event.taskId)
                THEN MapGet(state.missedDeadlinesByTask, event.taskId)
                ELSE 0
          IN [state EXCEPT !.missedDeadlinesByTask =
                MapSet(@, event.taskId, missedCount + 1)]
     ELSE state

handleTaskCompletion(event, systemModel, state, simulationTime) ==
  IF state.activeTask = NoTask THEN state
  ELSE
    LET completedTask == [state.activeTask EXCEPT !.remainingTime = 0]
        responseTime == state.currentTime - completedTask.arrivalTime
        responseTimeArray ==
          IF MapHas(state.responseTimeByTask, completedTask.taskId)
          THEN MapGet(state.responseTimeByTask, completedTask.taskId)
          ELSE <<>>
    IN [state EXCEPT
          !.completedTasks = Append(@, completedTask),
          !.responseTimeByTask =
             MapSet(@, completedTask.taskId, Append(responseTimeArray, responseTime)),
          !.activeTask = NoTask]

handleResourceSupplyStart(event, state) ==
  [state EXCEPT !.resourceAvailableByComponent =
     MapSet(@, event.componentId, TRUE)]

\* a supply end that clears the flag and leaves the active job in its slot
handleResourceSupplyEndWithoutPreemption(event, state) ==
  [state EXCEPT !.resourceAvailableByComponent =
     MapSet(@, event.componentId, FALSE)]

handleResourceSupplyEnd(event, state) ==
  LET s1 == [state EXCEPT !.resourceAvailableByComponent =
               MapSet(@, event.componentId, FALSE)]
  IN IF s1.activeTask # NoTask /\ s1.activeTask.componentId = event.componentId
     THEN [s1 EXCEPT !.readyQueue = Append(@, s1.activeTask),
                     !.activeTask = NoTask]
     ELSE s1

(***************************************************************************)
(* scheduleNextTask.                                                       *)
(***************************************************************************)
\* the keys of tasksByComponent in insertion order: the component ids of the
\* ready queue in the order of their first occurrence
ComponentsOfQueue(readyQueue) ==
  LET First(i) == \A j \in 1..(i - 1) :
                    readyQueue[j].componentId # readyQueue[i].componentId
      Keep[i \in 0..Len(readyQueue)] ==
        IF i = 0 THEN <<>>
        ELSE IF First(i) THEN Append(Keep[i - 1], readyQueue[i].componentId)
        ELSE Keep[i - 1]
  IN Keep[Len(readyQueue)]

\* tasks.sort(...) of one component's ready jobs
SortTasks(component, tasks) ==
  IF component.schedulingAlgorithm = "EDF"
  THEN Items(SortKeyed([i \in DOMAIN tasks |->
               [key |-> tasks[i].deadline, item |-> tasks[i]]]))
  ELSE IF component.schedulingAlgorithm = "FPS"
  THEN Items(SortKeyed([i \in DOMAIN tasks |->
               [key |-> tasks[i].priority, item |-> tasks[i]]]))
  ELSE tasks

\* the body of tasksByComponent.forEach: selectedTask after the visit of
\* one component
SelectFromComponent(state, systemModel, componentId, selectedTask) ==
  LET tasks == SelectSeq(state.readyQueue,
                         LAMBDA t : t.componentId = componentId)
      available ==
        MapHas(state.resourceAvailableByComponent, componentId)
        /\ MapGet(state.resourceAvailableByComponent, componentId) = TRUE
      found == findComponentById(systemModel, componentId)
  IN IF ~available THEN selectedTask
     ELSE IF found = <<>> THEN selectedTask
     ELSE
       LET component == found[1]
           sorted == SortTasks(component, tasks)
       IN IF \/ selectedTask = NoTask
             \/ /\ component.schedulingAlgorithm = "EDF"
                /\ sorted[1].deadline < selectedTask.deadline
             \/ /\ component.schedulingAlgorithm = "FPS"
                /\ sorted[1].priority < selectedTask.priority
          THEN sorted[1]
          ELSE selectedTask

\* selectedTask after tasksByComponent.forEach
SelectTask(state, systemModel) ==
  LET comps == ComponentsOfQueue(state.readyQueue)
      Sel[k \in 0..Len(comps)] ==
        IF k = 0 THEN NoTask
        ELSE SelectFromComponent(state, systemModel, comps[k], Sel[k - 1])
  IN Sel[Len(comps)]

\* the "if (selectedTask)" block of scheduleNextTask
Dispatch(state, selectedTask) ==
  LET currentExecutionTime ==
        IF MapHas(state.executionTimeByComponent, selectedTask.componentId)
        THEN MapGet(state.executionTimeByComponent, selectedTask.componentId)
        ELSE 0
  IN [state EXCEPT
        !.readyQueue =
           SelectSeq(@, LAMBDA t : ~(t.taskId = selectedTask.taskId
                                     /\ t.instanceId = selectedTask.instanceId)),
        !.activeTask = selectedTask,
        !.events = Append(@, SimulationEvent(
                      state.currentTime + selectedTask.remainingTime,
                      "completion", selectedTask.taskId,
                      selectedTask.componentId, selectedTask.job)),
        !.executionTimeByComponent =
           MapSet(@, selectedTask.componentId,
                  currentExecutionTime + selectedTask.remainingTime)]

scheduleNextTask(state, systemModel) ==
  IF state.activeTask # NoTask THEN state
  ELSE IF state.readyQueue = <<>> THEN state
  ELSE LET selectedTask == SelectTask(state, systemModel)
       IN IF selectedTask # NoTask THEN Dispatch(state, selectedTask)
          ELSE state

(***************************************************************************)
(* generateInitialEvents.  Its recursion over the component tree is        *)
(* flattened into the sequence of its steps, in the order the source       *)
(* executes them: the arrivals of a component's tasks, then for each child *)
(* the while loop that pushes its supply windows (when the child has alpha *)
(* and delta) followed by the recursive call for the child.  "time" is the *)
(* loop variable of the while loop.                                        *)
(***************************************************************************)
RECURSIVE GenerationSteps(_)
GenerationSteps(component) ==
  <<[op |-> "tasks", component |-> component, time |-> 0]>> \o
  (IF component.hasChildList
   THEN Flatten([j \in DOMAIN component.childComponents |->
          LET child == component.childComponents[j]
          IN (IF IsDefined(child.alpha) /\ IsDefined(child.delta)
              THEN <<[op |-> "supply", component |-> child, time |-> 0]>>
              ELSE <<>>) \o GenerationSteps(child)])
   ELSE <<>>)

\* systemModel.rootComponents.forEach(generateInitialEvents)
AllGenerationSteps(systemModel) ==
  Flatten([r \in DOMAIN systemModel.rootComponents |->
             GenerationSteps(systemModel.rootComponents[r])])

\* component.tasks.forEach: the events array after the arrivals are pushed
PushTaskArrivals(component, events) ==
  events \o [i \in DOMAIN component.tasks |->
               SimulationEvent(0, "arrival", component.tasks[i].id, component.id, 0)]

\* a supply period of delta
SupplyPeriodOfDelta(child) == Ticks(child.delta)

\* Half-Half in generateInitialEvents: supplyPeriod and supplyBudget of a child
SupplyPeriod(child) == Ticks(RMul(RInt(2), child.delta))

SupplyBudget(child) == Ticks(RMul(child.alpha, RMul(RInt(2), child.delta)))

\* one iteration of the while loop: the events array after the two pushes
PushSupplyWindow(child, time, events) ==
  events \o <<SimulationEvent(time, "resource-supply-start", "", child.id, 0),
              SimulationEvent(time + SupplyBudget(child), "resource-supply-end",
                              "", child.id, 0)>>

(***************************************************************************)
(* The main loop of runSimulation and its results.                         *)
(***************************************************************************)
\* state.events.sort((a, b) => a.time - b.time)
SortEvents(events) ==
  Items(SortKeyed([i \in DOMAIN events |->
                     [key |-> events[i].time, item |-> events[i]]]))

\* the condition of the while loop
LoopCondition(state, simulationTime) ==
  state.currentTime < simulationTime /\ Len(state.events) > 0

\* the event the next iteration shifts from the sorted array
NextEvent(state) == Head(SortEvents(state.events))

\* sort, shift and the assignment of currentTime
ShiftEvent(state) ==
  LET sorted == SortEvents(state.events)
  IN [state EXCEPT !.events = Tail(sorted), !.currentTime = Head(sorted).time]

Sum(seq) ==
  LET S[i \in 0..Len(seq)] == IF i = 0 THEN 0 ELSE S[i - 1] + seq[i]
  IN S[Len(seq)]

Max(seq) == CHOOSE m \in {seq[i] : i \in DOMAIN seq} :
              \A i \in DOMAIN seq : seq[i] <= m

\* averageResponseTime and utilization are rationals
TaskResponseTimes(state) ==
  [i \in DOMAIN state.responseTimeByTask |->
     LET taskId == state.responseTimeByTask[i].key
         times == state.responseTimeByTask[i].value
     IN IF Len(times) > 0
        THEN [taskId |-> taskId,
              averageResponseTime |-> Rat(Sum(times), Len(times)),
              maximumResponseTime |-> Max(times),
              missedDeadlines |->
                IF MapHas(state.missedDeadlinesByTask, taskId)
                THEN MapGet(state.missedDeadlinesByTask, taskId) ELSE 0]
        ELSE [taskId |-> taskId, averageResponseTime |-> Rat(0, 1),
              maximumResponseTime |-> 0, missedDeadlines |-> 0]]

ComponentUtilizations(systemModel, state, simulationTime) ==
  LET known == SelectSeq(state.executionTimeByComponent,
                 LAMBDA e : findComponentById(systemModel, e.key) # <<>>)
  IN [i \in DOMAIN known |->
        LET component == findComponentById(systemModel, known[i].key)[1]
        IN [componentId |-> known[i].key,
            utilization |-> Rat(known[i].value, simulationTime),
            allocatedUtilization |->
              IF IsDefined(component.alpha) THEN component.alpha ELSE Rat(0, 1)]]

\* the value runSimulation returns (without the timestamp)
SimulationResults(systemModel, state, simulationTime) ==
  [taskResponseTimes |-> TaskResponseTimes(state),
   componentUtilizations |-> ComponentUtilizations(systemModel, state, simulationTime),
   simulationTime |-> simulationTime]

NoResults ==
  [taskResponseTimes |-> <<>>, componentUtilizations |-> <<>>, simulationTime |-> 0]

(***************************************************************************)
(* schedulingFunctions: demand and supply bound functions.  The tasks      *)
(* these operators take have a rational wcet (the analyzer passes tasks    *)
(* whose wcet is divided by the performance factor); t is an integer.      *)
(***************************************************************************)
RECURSIVE gcd(_, _)
gcd(a, b) == IF b > 0 THEN gcd(b, a % b) ELSE a

\* the same rational in lowest terms
Norm(r) ==
  LET g == gcd(IF r.n < 0 THEN 0 - r.n ELSE r.n, r.d)
  IN Rat(r.n \div g, r.d \div g)

\* Math.floor and Math.ceil of the quotient of two integers, b > 0
FloorDiv(a, b) == a \div b

CeilOfQuotient(a, b) == 0 - ((0 - a) \div b)

isPeriodic(task) == task.period # 0

isSporadic(task) == task.minimumInterArrivalTime # 0

\* the period an analysis reads for a task: 'period' in t, else
\* 'minimumInterArrivalTime' in t, else 0
PeriodOrMit(task) ==
  IF isPeriodic(task) THEN task.period
  ELSE IF isSporadic(task) THEN task.minimumInterArrivalTime
  ELSE 0

\* a demand bound that counts floor((t - D) / T) + 1 jobs without the
\* Math.max(0, ...)
calculateDBFforEDFUnclamped(tasks, t) ==
  LET NumJobs(task, interval) == FloorDiv(t - task.deadline, interval) + 1
      totalDemand[i \in 0..Len(tasks)] ==
        IF i = 0 THEN RInt(0)
        ELSE LET task == tasks[i]
             IN IF isPeriodic(task)
                THEN Norm(RAdd(totalDemand[i - 1],
                               RMul(RInt(NumJobs(task, task.period)), task.wcet)))
                ELSE IF isSporadic(task)
                THEN Norm(RAdd(totalDemand[i - 1],
                               RMul(RInt(NumJobs(task, task.minimumInterArrivalTime)),
                                    task.wcet)))
                ELSE totalDemand[i - 1]
  IN totalDemand[Len(tasks)]

calculateDBFforEDF(tasks, t) ==
  LET NumJobs(task, interval) ==
        LET n == FloorDiv(t - task.deadline, interval) + 1
        IN IF n > 0 THEN n ELSE 0
      totalDemand[i \in 0..Len(tasks)] ==
        IF i = 0 THEN RInt(0)
        ELSE LET task == tasks[i]
             IN IF isPeriodic(task)
                THEN Norm(RAdd(totalDemand[i - 1],
                               RMul(RInt(NumJobs(task, task.period)), task.wcet)))
                ELSE IF isSporadic(task)
                THEN Norm(RAdd(totalDemand[i - 1],
                               RMul(RInt(NumJobs(task, task.minimumInterArrivalTime)),
                                    task.wcet)))
                ELSE totalDemand[i - 1]
  IN totalDemand[Len(tasks)]

\* calculateDBFforEDF as the second version of schedulingFunctions writes it:
\* floor((t + T - D) / T) jobs, and Math.max(0, numJobs * wcet)
calculateDBFforEDFOverHyperperiod(tasks, t) ==
  LET Demand(task, interval) ==
        LET numJobs == FloorDiv(t + interval - task.deadline, interval)
            demand == RMul(RInt(numJobs), task.wcet)
        IN IF RLess(RInt(0), demand) THEN demand ELSE RInt(0)
      totalDemand[i \in 0..Len(tasks)] ==
        IF i = 0 THEN RInt(0)
        ELSE LET task == tasks[i]
             IN IF isPeriodic(task)
                THEN Norm(RAdd(totalDemand[i - 1], Demand(task, task.period)))
                ELSE IF isSporadic(task)
                THEN Norm(RAdd(totalDemand[i - 1],
                               Demand(task, task.minimumInterArrivalTime)))
                ELSE totalDemand[i - 1]
  IN totalDemand[Len(tasks)]

\* taskIndex counts from 1 (the source: from 0)
calculateDBFforFPS(tasks, t, taskIndex) ==
  LET task == tasks[taskIndex]
      interference[j \in 0..(taskIndex - 1)] ==
        IF j = 0 THEN RInt(0)
        ELSE LET higherPriorityTask == tasks[j]
             IN IF isPeriodic(higherPriorityTask)
                THEN Norm(RAdd(interference[j - 1],
                       RMul(RInt(CeilOfQuotient(t, higherPriorityTask.period)),
                            higherPriorityTask.wcet)))
                ELSE IF isSporadic(higherPriorityTask)
                THEN Norm(RAdd(interference[j - 1],
                       RMul(RInt(CeilOfQuotient(t,
                                   higherPriorityTask.minimumInterArrivalTime)),
                            higherPriorityTask.wcet)))
                ELSE interference[j - 1]
  IN IF isPeriodic(task) \/ isSporadic(task)
     THEN Norm(RAdd(interference[taskIndex - 1], task.wcet))
     ELSE interference[taskIndex - 1]

calculateSBFforBDR(alpha, delta, t) ==
  IF RLeq(RInt(t), delta) THEN RInt(0)
  ELSE Norm(RMul(alpha, RSub(RInt(t), delta)))

\* a transformation whose budget is alpha * delta
applyHalfHalfAlgorithmBudgetFromDelta(alpha, delta) ==
  [supplyBudget |-> Norm(RMul(alpha, delta)),
   supplyPeriod |-> Norm(RMul(RInt(2), delta))]

applyHalfHalfAlgorithm(alpha, delta) ==
  LET supplyPeriod == Norm(RMul(RInt(2), delta))
  IN [supplyBudget |-> Norm(RMul(alpha, supplyPeriod)),
      supplyPeriod |-> supplyPeriod]

lcm(a, b) == (a * b) \div gcd(a, b)

\* "x || fallback" for a number x that may be undefined: the fallback when
\* x is undefined or 0
OrElse(x, fallback) == IF ~IsDefined(x) \/ x.n = 0 THEN fallback ELSE x

\* "[...component.tasks]", sorted by priority for FPS; the wcet as a rational
SortedTasks(component) ==
  LET tasks == [i \in DOMAIN component.tasks |->
                  [component.tasks[i] EXCEPT !.wcet = RInt(@)]]
  IN IF component.schedulingAlgorithm = "FPS"
     THEN Items(SortKeyed([i \in DOMAIN tasks |->
                  [key |-> tasks[i].priority, item |-> tasks[i]]]))
     ELSE tasks

\* the sum of wcet / period, or wcet / minimumInterArrivalTime, over the tasks
Utilization(tasks) ==
  LET sum[i \in 0..Len(tasks)] ==
        IF i = 0 THEN RInt(0)
        ELSE IF isPeriodic(tasks[i])
        THEN Norm(RAdd(sum[i - 1], RDiv(tasks[i].wcet, RInt(tasks[i].period))))
        ELSE IF isSporadic(tasks[i])
        THEN Norm(RAdd(sum[i - 1],
                       RDiv(tasks[i].wcet,
                            RInt(tasks[i].minimumInterArrivalTime))))
        ELSE sum[i - 1]
  IN sum[Len(tasks)]

\* the least common multiple of the periods, a task without period counting 1
Hyperperiod(tasks) ==
  LET h[i \in 0..Len(tasks)] ==
        IF i = 0 THEN 1
        ELSE lcm(h[i - 1],
                 IF isPeriodic(tasks[i]) THEN tasks[i].period
                 ELSE IF isSporadic(tasks[i])
                 THEN tasks[i].minimumInterArrivalTime
                 ELSE 1)
  IN h[Len(tasks)]

\* the check points of isComponentSchedulable: the deadlines D, D + T,
\* D + 2T, ... of every task up to maxCheckTime
DeadlineCheckPoints(tasks, maxCheckTime) ==
  {t \in 0..maxCheckTime :
     \E i \in DOMAIN tasks :
       \/ t = tasks[i].deadline
       \/ /\ t > tasks[i].deadline
          /\ PeriodOrMit(tasks[i]) # 0
          /\ (t - tasks[i].deadline) % PeriodOrMit(tasks[i]) = 0}

isComponentSchedulable(component) ==
  LET tasks == SortedTasks(component)
      hyperperiod == Hyperperiod(tasks)
      maxCheckTime == IF hyperperiod < 1000 THEN hyperperiod ELSE 1000
      supply(t) == calculateSBFforBDR(OrElse(component.alpha, RInt(1)),
                                      OrElse(component.delta, RInt(0)), t)
  IN IF RLess(RInt(1), Utilization(tasks)) THEN FALSE
     ELSE \A t \in DeadlineCheckPoints(tasks, maxCheckTime) :
            IF component.schedulingAlgorithm = "EDF"
            THEN ~RLess(supply(t), calculateDBFforEDF(tasks, t))
            ELSE IF component.schedulingAlgorithm = "FPS"
            THEN \A i \in DOMAIN tasks :
                   ~RLess(supply(t), calculateDBFforFPS(tasks, t, i))
            ELSE TRUE

\* the precision of the binary search
Precision == Rat(1, 10)

\* the while loop of calculateBDRInterface: maxDelta when it ends
RECURSIVE BDRSearch(_, _, _, _)
BDRSearch(component, alpha, minDelta, maxDelta) ==
  IF RLess(Precision, RSub(maxDelta, minDelta))
  THEN LET delta == Norm(RDiv(RAdd(minDelta, maxDelta), RInt(2)))
       IN IF isComponentSchedulable(
               [component EXCEPT !.alpha = alpha, !.delta = delta])
          THEN BDRSearch(component, alpha, minDelta, delta)
          ELSE BDRSearch(component, alpha, delta, maxDelta)
  ELSE maxDelta

\* for a component with at least one task (without tasks the source starts
\* from maxDelta = -Infinity)
calculateBDRInterface(component) ==
  LET tasks == SortedTasks(component)
      margin == Norm(RMul(Utilization(tasks), Rat(11, 10)))
      alpha == IF RLess(margin, RInt(1)) THEN margin ELSE RInt(1)
      maxDeadline == Max([i \in DOMAIN tasks |-> tasks[i].deadline])
  IN [alpha |-> alpha,
      delta |-> BDRSearch(component, alpha, RInt(0), RInt(2 * maxDeadline))]

\* the other isComponentSchedulable of the repository: its check points are
\* the deadlines up to the uncapped hyperperiod, stepping by task.period (a
\* sporadic task has none: t becomes NaN after its deadline), and its
\* supply is t * alpha
isComponentSchedulableOverHyperperiod(component) ==
  LET tasks == SortedTasks(component)
      hyperperiod == Hyperperiod(tasks)
      checkPoints ==
        {t \in 0..hyperperiod :
           \E i \in DOMAIN tasks :
             \/ t = tasks[i].deadline
             \/ /\ t > tasks[i].deadline
                /\ isPeriodic(tasks[i])
                /\ (t - tasks[i].deadline) % tasks[i].period = 0}
      supply(t) == Norm(RMul(RInt(t), OrElse(component.alpha, RInt(1))))
  IN IF RLess(RInt(1), Utilization(tasks)) THEN FALSE
     ELSE \A t \in checkPoints :
            IF component.schedulingAlgorithm = "EDF"
            THEN ~RLess(supply(t), calculateDBFforEDFOverHyperperiod(tasks, t))
            ELSE IF component.schedulingAlgorithm = "FPS"
            THEN \A i \in DOMAIN tasks :
                   ~RLess(supply(t), calculateDBFforFPS(tasks, t, i))
            ELSE TRUE

(***************************************************************************)
(* Analyzer: isSchedulableWithInterface, calculateMinimumInterface,        *)
(* analyzeComponent.  Numbers are exact rationals.                         *)
(***************************************************************************)
\* the tasks with their wcet divided by the performance factor
AdjustedTasks(component, corePerformanceFactor) ==
  [i \in DOMAIN component.tasks |->
     [component.tasks[i] EXCEPT
        !.wcet = Norm(RDiv(RInt(@), corePerformanceFactor))]]

\* the values of t the for loops visit: 0, step, 2 step, ... up to bound.
\* Without tasks Math.max() is -Infinity, and so is bound: no value is visited
CheckPoints(component) ==
  IF component.tasks = <<>> THEN {}
  ELSE LET maxDeadline == Max([i \in DOMAIN component.tasks |->
                                 component.tasks[i].deadline])
           maxPeriod == Max([i \in DOMAIN component.tasks |->
                               PeriodOrMit(component.tasks[i])])
           bound == 2 * (maxDeadline + maxPeriod)
           step == IF bound \div 100 > 1 THEN bound \div 100 ELSE 1
       IN {t \in 0..bound : t % step = 0}

isSchedulableWithInterface(component, corePerformanceFactor) ==
  IF ~IsDefined(component.alpha) \/ ~IsDefined(component.delta) THEN FALSE
  ELSE
    LET adjustedTasks == AdjustedTasks(component, corePerformanceFactor)
        supply(t) == calculateSBFforBDR(component.alpha, component.delta, t)
    IN IF component.schedulingAlgorithm = "EDF"
       THEN \A t \in CheckPoints(component) :
              ~RLess(supply(t), calculateDBFforEDF(adjustedTasks, t))
       ELSE IF component.schedulingAlgorithm = "FPS"
       THEN LET sortedTasks ==
                  Items(SortKeyed([i \in DOMAIN adjustedTasks |->
                          [key |-> adjustedTasks[i].priority,
                           item |-> adjustedTasks[i]]]))
            IN \A i \in DOMAIN sortedTasks : \A t \in CheckPoints(component) :
                 ~RLess(supply(t), calculateDBFforFPS(sortedTasks, t, i))
       ELSE TRUE

\* the while loop of calculateMinimumInterface: minDelta and maxDelta when
\* it ends
RECURSIVE BinarySearch(_, _, _, _, _)
BinarySearch(component, corePerformanceFactor, alpha, minDelta, maxDelta) ==
  IF RLess(Precision, RSub(maxDelta, minDelta))
  THEN LET midDelta == Norm(RDiv(RAdd(minDelta, maxDelta), RInt(2)))
       IN IF isSchedulableWithInterface(
               [component EXCEPT !.alpha = alpha, !.delta = midDelta],
               corePerformanceFactor)
          THEN BinarySearch(component, corePerformanceFactor, alpha,
                            minDelta, midDelta)
          ELSE BinarySearch(component, corePerformanceFactor, alpha,
                            midDelta, maxDelta)
  ELSE [minDelta |-> minDelta, maxDelta |-> maxDelta]

\* a calculateMinimumInterface that starts from the alpha of the component
\* when it has one, as the retry of the source intends
InitialAlphaFromComponent(component, corePerformanceFactor) ==
  LET tasks == AdjustedTasks(component, corePerformanceFactor)
      sum[i \in 0..Len(tasks)] ==
        IF i = 0 THEN RInt(0)
        ELSE IF PeriodOrMit(tasks[i]) # 0
        THEN Norm(RAdd(sum[i - 1],
                       RDiv(tasks[i].wcet, RInt(PeriodOrMit(tasks[i])))))
        ELSE sum[i - 1]
      start == IF IsDefined(component.alpha) THEN component.alpha
               ELSE sum[Len(tasks)]
      margin == Norm(RMul(start, Rat(11, 10)))
  IN IF RLess(margin, RInt(1)) THEN margin ELSE RInt(1)

\* alpha after "alpha = Math.min(alpha * 1.1, 1.0)"
InitialAlpha(component, corePerformanceFactor) ==
  LET tasks == AdjustedTasks(component, corePerformanceFactor)
      sum[i \in 0..Len(tasks)] ==
        IF i = 0 THEN RInt(0)
        ELSE IF PeriodOrMit(tasks[i]) # 0
        THEN Norm(RAdd(sum[i - 1],
                       RDiv(tasks[i].wcet, RInt(PeriodOrMit(tasks[i])))))
        ELSE sum[i - 1]
      margin == Norm(RMul(sum[Len(tasks)], Rat(11, 10)))
  IN IF RLess(margin, RInt(1)) THEN margin ELSE RInt(1)

\* the statements after the while loop, search being minDelta and maxDelta
\* when the loop ends.  returns = FALSE: the retry is taken.  The retry calls
\* calculateMinimumInterface on the same tasks and the same performance
\* factor (the alpha it passes is overwritten by the first statement), so it
\* takes the retry again, without end
AfterSearch(component, corePerformanceFactor, alpha, search) ==
  LET retry == /\ search.minDelta = search.maxDelta
               /\ ~isSchedulableWithInterface(
                     [component EXCEPT !.alpha = alpha,
                                       !.delta = search.maxDelta],
                     corePerformanceFactor)
  IN [alpha |-> alpha, delta |-> search.maxDelta, returns |-> ~retry]

\* the binary search and what follows it, for the initial alpha
SearchDelta(component, corePerformanceFactor, alpha) ==
  LET maxDeadline ==
        IF component.tasks = <<>> THEN 0
        ELSE Max([i \in DOMAIN component.tasks |-> component.tasks[i].deadline])
  IN AfterSearch(component, corePerformanceFactor, alpha,
       BinarySearch(component, corePerformanceFactor, alpha,
                    RInt(0), RInt(2 * maxDeadline)))

calculateMinimumInterface(component, corePerformanceFactor) ==
  SearchDelta(component, corePerformanceFactor,
              InitialAlpha(component, corePerformanceFactor))

\* an element of componentInterfaces; the record of a root has no supply
\* parameters
ComponentInterface(componentId, alpha, delta, supplyBudget, supplyPeriod) ==
  [componentId |-> componentId, alpha |-> alpha, delta |-> delta,
   supplyBudget |-> supplyBudget, supplyPeriod |-> supplyPeriod]

\* analyzeComponent gives isSchedulable and interfaces, the component as the
\* call leaves it (it writes alpha and delta into the children) and whether
\* the call returns.  Its for loop over the children is AnalyzeChildren (from
\* child i on, acc being what the iterations before have computed); one
\* iteration is AnalyzeChild, given the interface calculateMinimumInterface
\* returns for the child, and then AfterChild, given what the recursive call
\* returns; AfterChildren is the rest of analyzeComponent after the loop
RECURSIVE analyzeComponent(_, _)
RECURSIVE AnalyzeChildren(_, _, _, _)
RECURSIVE AnalyzeChild(_, _, _, _, _)
RECURSIVE AfterChild(_, _, _, _, _, _)
AfterChild(children, i, corePerformanceFactor, acc, interface, childResult) ==
  LET supply == applyHalfHalfAlgorithm(interface.alpha, interface.delta)
      own == ComponentInterface(children[i].id, interface.alpha,
                                interface.delta, supply.supplyBudget,
                                supply.supplyPeriod)
      rest == SubSeq(children, i + 1, Len(children))
  IN IF ~childResult.returns
     THEN [acc EXCEPT !.returns = FALSE,
                      !.children = @ \o <<childResult.component>> \o rest]
     ELSE AnalyzeChildren(children, i + 1, corePerformanceFactor,
            [isSchedulable |-> /\ acc.isSchedulable
                               /\ ~RLess(RInt(1), interface.alpha)
                               /\ childResult.isSchedulable,
             interfaces |-> acc.interfaces \o <<own>> \o childResult.interfaces,
             children |-> Append(acc.children, childResult.component),
             returns |-> TRUE])

AnalyzeChild(children, i, corePerformanceFactor, acc, interface) ==
  IF ~interface.returns
  THEN [acc EXCEPT !.returns = FALSE,
                   !.children = @ \o SubSeq(children, i, Len(children))]
  ELSE AfterChild(children, i, corePerformanceFactor, acc, interface,
         analyzeComponent([children[i] EXCEPT !.alpha = interface.alpha,
                                              !.delta = interface.delta],
                          corePerformanceFactor))

AnalyzeChildren(children, i, corePerformanceFactor, acc) ==
  IF i > Len(children) THEN acc
  ELSE AnalyzeChild(children, i, corePerformanceFactor, acc,
         calculateMinimumInterface(children[i], corePerformanceFactor))

\* the rest of an analyzeComponent that does not test the component itself
AfterChildrenWithoutOwnTest(component, corePerformanceFactor, kids) ==
  LET analyzed == [component EXCEPT !.childComponents = kids.children]
      own == IF IsDefined(component.alpha) /\ IsDefined(component.delta)
             THEN <<ComponentInterface(component.id, component.alpha,
                                       component.delta, Undefined, Undefined)>>
             ELSE <<>>
  IN [isSchedulable |-> kids.isSchedulable,
      interfaces |-> kids.interfaces \o own,
      component |-> analyzed,
      returns |-> kids.returns]

AfterChildren(component, corePerformanceFactor, kids) ==
  LET analyzed == [component EXCEPT !.childComponents = kids.children]
      own == IF IsDefined(component.alpha) /\ IsDefined(component.delta)
             THEN <<ComponentInterface(component.id, component.alpha,
                                       component.delta, Undefined, Undefined)>>
             ELSE <<>>
  IN [isSchedulable |-> /\ kids.isSchedulable
                        /\ isSchedulableWithInterface(analyzed,
                                                      corePerformanceFactor),
      interfaces |-> kids.interfaces \o own,
      component |-> analyzed,
      returns |-> kids.returns]

analyzeComponent(component, corePerformanceFactor) ==
  LET none == [isSchedulable |-> TRUE, interfaces |-> <<>>,
               children |-> <<>>, returns |-> TRUE]
  IN AfterChildren(component, corePerformanceFactor,
       IF component.hasChildList /\ Len(component.childComponents) > 0
       THEN AnalyzeChildren(component.childComponents, 1,
                            corePerformanceFactor, none)
       ELSE [none EXCEPT !.children = component.childComponents])

(***************************************************************************)
(* The system models Init draws from.                                      *)
(***************************************************************************)

Core1 == Core("1", RInt(1))

\* 20% slower, as in the sample model
Core2 == Core("2", Rat(4, 5))

RootComponent(id, corePrefixes, alg, tasks, hasChildList, children) ==
  Component(id, corePrefixes, alg, RInt(1), RInt(0), tasks, hasChildList, children)

ChildComponent(id, alg, alpha, delta, tasks) ==
  Component(id, {}, alg, alpha, delta, tasks, FALSE, <<>>)

\* spec scenario 1: EDF root, utilization 0.6
Scenario1 ==
  SystemModel(<<Core1>>,
    <<RootComponent("core-1-root", {"1"}, "EDF",
        <<PeriodicTask("t1", 2, 5, 5, 0), PeriodicTask("t2", 2, 10, 10, 0)>>,
        FALSE, <<>>)>>)

\* spec scenario 2: EDF root, utilization 1.0
Scenario2 ==
  SystemModel(<<Core1>>,
    <<RootComponent("core-1-root", {"1"}, "EDF",
        <<PeriodicTask("t1", 4, 5, 5, 0), PeriodicTask("t2", 2, 10, 10, 0)>>,
        FALSE, <<>>)>>)

\* spec scenario 4: FPS root
Scenario4 ==
  SystemModel(<<Core1>>,
    <<RootComponent("core-1-root", {"1"}, "FPS",
        <<PeriodicTask("t1", 3, 10, 10, 1), PeriodicTask("t2", 6, 15, 15, 2)>>,
        FALSE, <<>>)>>)

\* spec scenario 5 in small: an EDF root with one task and a child with the
\* interface (1/2, 2), that is the supply task (Q = 2, P = 4), hosting a
\* sporadic task
Hierarchy ==
  SystemModel(<<Core1>>,
    <<RootComponent("core-1-root", {"1"}, "EDF",
        <<PeriodicTask("r1", 3, 12, 12, 0)>>, TRUE,
        <<ChildComponent("child-1", "EDF", Rat(1, 2), RInt(2),
            <<SporadicTask("c1", 3, 10, 8, 0)>>)>>)>>)

\* a child with delta = 0
DeltaZero ==
  SystemModel(<<Core1>>,
    <<RootComponent("core-1-root", {"1"}, "EDF", <<>>, TRUE,
        <<ChildComponent("child-1", "EDF", Rat(1, 2), RInt(0),
            <<PeriodicTask("c1", 1, 4, 4, 0)>>)>>)>>)

\* two cores, each with its own root
TwoCores ==
  SystemModel(<<Core1, Core2>>,
    <<RootComponent("core-1-root", {"1"}, "EDF",
        <<PeriodicTask("a1", 2, 4, 4, 0)>>, FALSE, <<>>),
      RootComponent("core-2-root", {"2"}, "EDF",
        <<PeriodicTask("b1", 4, 10, 10, 0)>>, FALSE, <<>>)>>)

\* an over-subscribed EDF root, utilization 1.5
Overload ==
  SystemModel(<<Core1>>,
    <<RootComponent("core-1-root", {"1"}, "EDF",
        <<PeriodicTask("t1", 3, 3, 3, 0), PeriodicTask("t2", 3, 6, 6, 0)>>,
        FALSE, <<>>)>>)

\* an EDF root of utilization 1.0 with a short and a long task
LongShort ==
  SystemModel(<<Core1>>,
    <<RootComponent("core-1-root", {"1"}, "EDF",
        <<PeriodicTask("t1", 1, 2, 2, 0), PeriodicTask("t2", 4, 8, 8, 0)>>,
        FALSE, <<>>)>>)

\* a root with two periodic tasks of implicit deadlines and priorities 1, 2
TwoTaskRoot(alg, wcet1, wcet2, period2) ==
  SystemModel(<<Core1>>,
    <<RootComponent("core-1-root", {"1"}, alg,
        <<PeriodicTask("t1", wcet1, 10, 10, 1),
          PeriodicTask("t2", wcet2, period2, period2, 2)>>,
        FALSE, <<>>)>>)

\* an EDF root of utilization 1.0 with a child whose only task has a deadline
\* far beyond its period: with bound = 2 * (589 + 12) = 1202 the feasibility
\* test steps by 12 and its first check point past the deadline is t = 600
LateDeadlineChild ==
  SystemModel(<<Core1>>,
    <<RootComponent("core-1-root", {"1"}, "EDF",
        <<PeriodicTask("r1", 4, 4, 4, 0)>>, TRUE,
        <<ChildComponent("child-1", "EDF", Rat(1, 2), RInt(2),
            <<PeriodicTask("c1", 1, 12, 589, 0)>>)>>)>>)

\* the child of LateDeadlineChild one level further down, below a child
\* without tasks
DeepLateDeadlineChild ==
  SystemModel(<<Core1>>,
    <<RootComponent("core-1-root", {"1"}, "EDF",
        <<PeriodicTask("r1", 4, 4, 4, 0)>>, TRUE,
        <<Component("child-1", {}, "EDF", Undefined, Undefined, <<>>, TRUE,
            <<ChildComponent("grandchild-1", "EDF", Undefined, Undefined,
                <<PeriodicTask("g1", 1, 12, 589, 0)>>)>>)>>)>>)

\* a child whose only task has the relative deadline 0: the interval the
\* binary search starts from is empty
ZeroDeadlineChild ==
  SystemModel(<<Core1>>,
    <<RootComponent("core-1-root", {"1"}, "EDF", <<>>, TRUE,
        <<ChildComponent("child-1", "EDF", Undefined, Undefined,
            <<PeriodicTask("c1", 1, 4, 0, 0)>>)>>)>>)

\* two cores whose ids are prefixes of one another: "core-10-root" starts
\* with "core-1" and with "core-10"
PrefixCores ==
  SystemModel(<<Core1, Core("10", RInt(1))>>,
    <<RootComponent("core-1-root", {"1"}, "EDF",
        <<PeriodicTask("a1", 2, 4, 4, 0)>>, FALSE, <<>>),
      RootComponent("core-10-root", {"1", "10"}, "EDF",
        <<PeriodicTask("b1", 4, 10, 10, 0)>>, FALSE, <<>>)>>)

\* a second root whose id starts with "core-<id>" for no declared core
UnboundRoot ==
  SystemModel(<<Core1>>,
    <<RootComponent("core-1-root", {"1"}, "EDF",
        <<PeriodicTask("a1", 2, 4, 4, 0)>>, FALSE, <<>>),
      RootComponent("root-2", {}, "EDF",
        <<PeriodicTask("b1", 4, 10, 10, 0)>>, FALSE, <<>>)>>)

Models ==
  {Scenario1, Scenario2, Scenario4, Hierarchy, DeltaZero, TwoCores, Overload,
   LongShort}

\* a root without tasks and a child with the interface (1/2, 2), that is the
\* supply windows [0, 2), [4, 6), [8, 10), hosting one task
OneJobChild(wcet) ==
  SystemModel(<<Core1>>,
    <<RootComponent("core-1-root", {"1"}, "EDF", <<>>, TRUE,
        <<ChildComponent("child-1", "EDF", Rat(1, 2), RInt(2),
            <<PeriodicTask("c1", wcet, 12, 12, 0)>>)>>)>>)

\* the job of the child needs more than one supply window
StarvedChild == OneJobChild(3)

\* the job of the child needs more than two supply windows
EarlyChild == OneJobChild(5)

\* an FPS root with two tasks of one priority, the larger id first
EqualPriorities ==
  SystemModel(<<Core1>>,
    <<RootComponent("core-1-root", {"1"}, "FPS",
        <<PeriodicTask("h", 1, 12, 12, 1), PeriodicTask("t2", 1, 12, 12, 2),
          PeriodicTask("t1", 1, 12, 12, 2)>>,
        FALSE, <<>>)>>)

\* an EDF root without priorities and an FPS child whose job has the
\* earliest deadline
MixedDisciplines ==
  SystemModel(<<Core1>>,
    <<RootComponent("core-1-root", {"1"}, "EDF",
        <<PeriodicTask("rA", 1, 12, 3, 0), PeriodicTask("rB", 2, 12, 12, 0)>>,
        TRUE,
        <<ChildComponent("child-1", "FPS", Rat(1, 2), RInt(2),
            <<PeriodicTask("c1", 1, 12, 4, 1)>>)>>)>>)

\* a child that has a child of its own
Nested ==
  SystemModel(<<Core1>>,
    <<RootComponent("core-1-root", {"1"}, "EDF",
        <<PeriodicTask("r1", 1, 12, 12, 0)>>, TRUE,
        <<Component("child-1", {}, "EDF", Rat(1, 2), RInt(2),
            <<PeriodicTask("c1", 1, 4, 4, 0)>>, TRUE,
            <<ChildComponent("grandchild-1", "EDF", Rat(1, 2), RInt(1),
                <<PeriodicTask("g1", 1, 4, 4, 0)>>)>>)>>)>>)

\* a child on the core with the performance factor 4/5
SlowCoreChild ==
  SystemModel(<<Core2>>,
    <<RootComponent("core-2-root", {"2"}, "EDF", <<>>, TRUE,
        <<ChildComponent("child-1", "EDF", RInt(1), RInt(3),
            <<PeriodicTask("c1", 4, 12, 12, 0)>>)>>)>>)

\* the models of the runs with supply windows, equal priorities, nested
\* components and a slower core
HierarchyModels ==
  {StarvedChild, EarlyChild, EqualPriorities, MixedDisciplines, Nested,
   SlowCoreChild}

\* the models and the horizon of the runs that are compared in pairs
PairModels == {TwoCores, LongShort}

PairHorizon == 8

\* the models analyzeSystem is run on
AnalyzerModels ==
  Models \cup {LateDeadlineChild, DeepLateDeadlineChild, ZeroDeadlineChild,
              PrefixCores, UnboundRoot} \cup
  {TwoTaskRoot(alg, wcet1, wcet2, period2) :
     alg \in {"EDF", "FPS"}, wcet1 \in 1..3, wcet2 \in 1..MaxWcet,
     period2 \in {10, 15}}

InstanceIds == 0..(InstanceIdRange - 1)

Horizons == 1..MaxHorizon

(***************************************************************************)
(* State.                                                                  *)
(*   systemModel, simulationTime  the arguments of runSimulation           *)
(*   pc        "init": generateInitialEvents is running; "loop": the main  *)
(*             loop; "done": runSimulation has returned; "exhausted":      *)
(*             generateInitialEvents has filled the memory with events     *)
(*   genQueue  the steps of generateInitialEvents still to execute         *)
(*   state     the SimulationState object                                  *)
(*   results   the value returned                                          *)
(*   ghost     history of the run, read by no action's guard or effect on  *)
(*             the other variables:                                        *)
(*               jobs[j]       for the j-th job created: its task, its     *)
(*                             executionTime and arrivalTime, the time it  *)
(*                             has occupied the                            *)
(*                             active slot (ran), whether its deadline     *)
(*                             event was handled (due) and whether it had  *)
(*                             then run for less than executionTime (late) *)
(*               dispatchedAt  the time of the last dispatch               *)
(*               dispatched    the jobs dispatched, in order               *)
(*               lastEvent     the event handled last                      *)
(*               collided      an arrival drew the instanceId of a job of  *)
(*                             the same task that was ready or active      *)
(*               chosen        the job the last dispatch selected          *)
(*               chosenFrom    the ready queue and the flags of            *)
(*                             resourceAvailableByComponent that dispatch  *)
(*                             read                                        *)
(*   twin      a second run of runSimulation (its arguments, pc, genQueue, *)
(*             state, results and ghost), for the claims that compare two  *)
(*             runs; "mode" says how the two differ (see PairInit)         *)
(*   analysis  a call of analyzeSystem on systemModel: its position (pc),  *)
(*             the (core, root) pairs its loops have still to visit, its   *)
(*             locals isSystemSchedulable and componentInterfaces, and the *)
(*             value it returns                                            *)
(*   test      one component with a performance factor, and what the       *)
(*             functions of schedulingFunctions and the analyzer that take *)
(*             a component or its interface have returned for it (<<>>:    *)
(*             not called yet)                                             *)
(***************************************************************************)
VARIABLES systemModel, simulationTime, pc, genQueue, state, results, ghost,
          twin, analysis, test

vars == <<systemModel, simulationTime, pc, genQueue, state, results, ghost,
          twin, analysis, test>>

NoAnalysis == [pc |-> "none"]

NoTest == [pc |-> "none"]

NoEvent == SimulationEvent(0 - 1, "none", "", "", 0)

InitialGhost ==
  [jobs |-> <<>>, dispatchedAt |-> 0, dispatched |-> <<>>,
   lastEvent |-> NoEvent, collided |-> FALSE, chosen |-> NoTask,
   chosenFrom |-> [readyQueue |-> <<>>, available |-> <<>>]]

\* the ghost after one iteration of the main loop: s is the state after the
\* shift, h after the handler, n after scheduleNextTask
GhostStep(g, event, s, h, n) ==
  LET now == event.time
      a == s.activeTask
      elapsed == now - g.dispatchedAt
      leaves == a # NoTask /\ h.activeTask = NoTask
      jobs1 == IF leaves
               THEN [g.jobs EXCEPT ![a.job].ran = @ + elapsed]
               ELSE g.jobs
      jobs2 == IF event.type = "deadline"
               THEN [jobs1 EXCEPT
                       ![event.job].due = TRUE,
                       ![event.job].late =
                          jobs1[event.job].ran
                            + (IF a.job = event.job /\ ~leaves THEN elapsed ELSE 0)
                          < jobs1[event.job].executionTime]
               ELSE jobs1
      jobs3 == IF Len(h.readyQueue) > Len(s.readyQueue) /\ event.type = "arrival"
               THEN LET created == h.readyQueue[Len(h.readyQueue)]
                    IN Append(jobs2, [taskId |-> created.taskId,
                                      componentId |-> created.componentId,
                                      executionTime |-> created.executionTime,
                                      arrivalTime |-> created.arrivalTime,
                                      ran |-> 0, due |-> FALSE, late |-> FALSE])
               ELSE jobs2
      creates == Len(h.readyQueue) > Len(s.readyQueue) /\ event.type = "arrival"
      Same(t) == /\ t.taskId = h.readyQueue[Len(h.readyQueue)].taskId
                 /\ t.instanceId = h.readyQueue[Len(h.readyQueue)].instanceId
      collides == /\ creates
                  /\ \/ \E i \in DOMAIN s.readyQueue : Same(s.readyQueue[i])
                     \/ a # NoTask /\ Same(a)
  IN [jobs |-> jobs3,
      dispatchedAt |-> IF h.activeTask = NoTask /\ n.activeTask # NoTask
                       THEN now ELSE g.dispatchedAt,
      dispatched |-> IF h.activeTask = NoTask /\ n.activeTask # NoTask
                     THEN Append(g.dispatched,
                            [taskId |-> n.activeTask.taskId,
                             arrivalTime |-> n.activeTask.arrivalTime,
                             time |-> now])
                     ELSE g.dispatched,
      lastEvent |-> event,
      collided |-> g.collided \/ collides,
      chosen |-> IF h.activeTask = NoTask /\ n.activeTask # NoTask
                 THEN n.activeTask ELSE g.chosen,
      chosenFrom |-> IF h.activeTask = NoTask /\ n.activeTask # NoTask
                     THEN [readyQueue |-> h.readyQueue,
                           available |-> h.resourceAvailableByComponent]
                     ELSE g.chosenFrom]

NoTwin == [pc |-> "none"]

StartPc(steps) == IF steps = <<>> THEN "loop" ELSE "init"

Init ==
  /\ systemModel \in Models \cup HierarchyModels
  /\ simulationTime \in Horizons
  /\ genQueue = AllGenerationSteps(systemModel)
  /\ pc = StartPc(genQueue)
  /\ state = StateAfterSetup(systemModel)
  /\ results = NoResults
  /\ ghost = InitialGhost
  /\ twin = NoTwin
  /\ analysis = NoAnalysis
  /\ test = NoTest

(***************************************************************************)
(* Actions of generateInitialEvents.                                       *)
(***************************************************************************)
GenerateTaskArrivals ==
  /\ pc = "init" /\ genQueue # <<>>
  /\ Head(genQueue).op = "tasks"
  /\ state' = [state EXCEPT
                 !.events = PushTaskArrivals(Head(genQueue).component, @)]
  /\ genQueue' = Tail(genQueue)
  /\ pc' = StartPc(genQueue')
  /\ UNCHANGED <<systemModel, simulationTime, results, ghost>>

\* one iteration of "while (time < simulationTime)"
SupplyLoopIteration ==
  /\ pc = "init" /\ genQueue # <<>>
  /\ Head(genQueue).op = "supply"
  /\ Head(genQueue).time < simulationTime
  /\ Len(state.events) + 2 <= MaxEvents
  /\ state' = [state EXCEPT
                 !.events = PushSupplyWindow(Head(genQueue).component,
                                             Head(genQueue).time, @)]
  /\ genQueue' = [genQueue EXCEPT
                    ![1].time = @ + SupplyPeriod(Head(genQueue).component)]
  /\ UNCHANGED <<systemModel, simulationTime, pc, results, ghost>>

\* the while loop has filled the events array: the push fails and the run
\* ends without returning
EventsExhausted ==
  /\ pc = "init" /\ genQueue # <<>>
  /\ Head(genQueue).op = "supply"
  /\ Head(genQueue).time < simulationTime
  /\ Len(state.events) + 2 > MaxEvents
  /\ pc' = "exhausted"
  /\ UNCHANGED <<systemModel, simulationTime, genQueue, state, results, ghost>>

SupplyLoopExit ==
  /\ pc = "init" /\ genQueue # <<>>
  /\ Head(genQueue).op = "supply"
  /\ ~(Head(genQueue).time < simulationTime)
  /\ genQueue' = Tail(genQueue)
  /\ pc' = StartPc(genQueue')
  /\ UNCHANGED <<systemModel, simulationTime, state, results, ghost>>

(***************************************************************************)
(* Actions of the main loop: one iteration each, by the type of the event  *)
(* shifted.                                                                *)
(***************************************************************************)
\* the state after the handler of the event has returned
Handle(event, sysModel, s, simTime, instanceId, job) ==
  CASE event.type = "arrival" ->
         handleTaskArrival(event, sysModel, s, simTime, instanceId, job)
    [] event.type = "deadline" -> handleTaskDeadline(event, s)
    [] event.type = "completion" ->
         handleTaskCompletion(event, sysModel, s, simTime)
    [] event.type = "resource-supply-start" -> handleResourceSupplyStart(event, s)
    [] event.type = "resource-supply-end" -> handleResourceSupplyEnd(event, s)

\* one iteration of the main loop on an event of the given type
Iteration(type, instanceId) ==
  /\ pc = "loop"
  /\ LoopCondition(state, simulationTime)
  /\ NextEvent(state).type = type
  /\ LET event == NextEvent(state)
         s == ShiftEvent(state)
         h == Handle(event, systemModel, s, simulationTime, instanceId,
                     Len(ghost.jobs) + 1)
         n == scheduleNextTask(h, systemModel)
     IN /\ state' = n
        /\ ghost' = GhostStep(ghost, event, s, h, n)
  /\ UNCHANGED <<systemModel, simulationTime, pc, genQueue, results>>

TaskArrival == \E instanceId \in InstanceIds : Iteration("arrival", instanceId)

TaskDeadline == Iteration("deadline", 0)

TaskCompletion == Iteration("completion", 0)

ResourceSupplyStart == Iteration("resource-supply-start", 0)

ResourceSupplyEnd == Iteration("resource-supply-end", 0)

\* the loop has ended: runSimulation prepares and returns the results
\* a return that stores the utilization it measured for a root component in
\* the alpha of that component
ReturnResultsStoringUtilization ==
  /\ pc = "loop"
  /\ ~LoopCondition(state, simulationTime)
  /\ results' = SimulationResults(systemModel, state, simulationTime)
  /\ pc' = "done"
  /\ systemModel' =
       [systemModel EXCEPT !.rootComponents =
          [r \in DOMAIN systemModel.rootComponents |->
             IF MapHas(state.executionTimeByComponent,
                       systemModel.rootComponents[r].id)
             THEN [systemModel.rootComponents[r] EXCEPT !.alpha =
                     Norm(Rat(MapGet(state.executionTimeByComponent,
                                     systemModel.rootComponents[r].id),
                              simulationTime))]
             ELSE systemModel.rootComponents[r]]]
  /\ UNCHANGED <<simulationTime, genQueue, state, ghost>>

ReturnResults ==
  /\ pc = "loop"
  /\ ~LoopCondition(state, simulationTime)
  /\ results' = SimulationResults(systemModel, state, simulationTime)
  /\ pc' = "done"
  /\ UNCHANGED <<systemModel, simulationTime, genQueue, state, ghost>>

Next ==
  \/ GenerateTaskArrivals /\ UNCHANGED <<twin, analysis, test>>
  \/ SupplyLoopIteration /\ UNCHANGED <<twin, analysis, test>>
  \/ EventsExhausted /\ UNCHANGED <<twin, analysis, test>>
  \/ SupplyLoopExit /\ UNCHANGED <<twin, analysis, test>>
  \/ TaskArrival /\ UNCHANGED <<twin, analysis, test>>
  \/ TaskDeadline /\ UNCHANGED <<twin, analysis, test>>
  \/ TaskCompletion /\ UNCHANGED <<twin, analysis, test>>
  \/ ResourceSupplyStart /\ UNCHANGED <<twin, analysis, test>>
  \/ ResourceSupplyEnd /\ UNCHANGED <<twin, analysis, test>>
  \/ ReturnResults /\ UNCHANGED <<twin, analysis, test>>

Spec == Init /\ [][Next]_vars

(***************************************************************************)
(* Two runs side by side: the first run takes the actions above, the twin  *)
(* takes the same steps of runSimulation on its own arguments with its own *)
(* instanceIds.  Both advance together until each has returned.            *)
(***************************************************************************)
StartRun(mode, sysModel, simTime) ==
  [mode |-> mode, systemModel |-> sysModel, simulationTime |-> simTime,
   pc |-> StartPc(AllGenerationSteps(sysModel)),
   genQueue |-> AllGenerationSteps(sysModel),
   state |-> StateAfterSetup(sysModel), results |-> NoResults,
   ghost |-> InitialGhost]

\* the model of one core and its root components alone
SubtreeAlone(sysModel, core) ==
  SystemModel(<<core>>, RootsOfCore(sysModel, core))

\* run r can take a step: it has not returned, and generateInitialEvents
\* has room in the events array
CanStep(r) ==
  \/ r.pc = "loop"
  \/ /\ r.pc = "init" /\ r.genQueue # <<>>
     /\ \/ Head(r.genQueue).op = "tasks"
        \/ ~(Head(r.genQueue).time < r.simulationTime)
        \/ Len(r.state.events) + 2 <= MaxEvents

\* run r after one step of generateInitialEvents
GenerationStep(r) ==
  LET step == Head(r.genQueue)
  IN IF step.op = "tasks"
     THEN [r EXCEPT
             !.state.events = PushTaskArrivals(step.component, @),
             !.genQueue = Tail(@),
             !.pc = StartPc(Tail(r.genQueue))]
     ELSE IF step.time < r.simulationTime
     THEN [r EXCEPT
             !.state.events = PushSupplyWindow(step.component, step.time, @),
             !.genQueue[1].time = @ + SupplyPeriod(step.component)]
     ELSE [r EXCEPT !.genQueue = Tail(@), !.pc = StartPc(Tail(r.genQueue))]

\* run r after one iteration of the main loop, or after its return
LoopStep(r, instanceId) ==
  IF LoopCondition(r.state, r.simulationTime)
  THEN LET event == NextEvent(r.state)
           s == ShiftEvent(r.state)
           h == Handle(event, r.systemModel, s, r.simulationTime,
                       instanceId, Len(r.ghost.jobs) + 1)
           n == scheduleNextTask(h, r.systemModel)
       IN [r EXCEPT !.state = n, !.ghost = GhostStep(r.ghost, event, s, h, n)]
  ELSE [r EXCEPT
          !.results = SimulationResults(r.systemModel, r.state, r.simulationTime),
          !.pc = "done"]

RunStep(r, instanceId) ==
  IF r.pc = "init" THEN GenerationStep(r) ELSE LoopStep(r, instanceId)

TwinNext ==
  /\ CanStep(twin)
  /\ \E instanceId \in InstanceIds : twin' = RunStep(twin, instanceId)

FirstRunNext ==
  \/ GenerateTaskArrivals
  \/ SupplyLoopIteration
  \/ SupplyLoopExit
  \/ TaskArrival
  \/ TaskDeadline
  \/ TaskCompletion
  \/ ResourceSupplyStart
  \/ ResourceSupplyEnd
  \/ ReturnResults

\* mode "same": both runs simulate the same model; mode "whole": the first
\* run simulates the subtree of the first core alone, the twin the whole model
PairInit ==
  /\ simulationTime = PairHorizon
  /\ \E whole \in PairModels, mode \in {"same", "whole"} :
       /\ systemModel = IF mode = "same" THEN whole
                        ELSE SubtreeAlone(whole, whole.cores[1])
       /\ twin = StartRun(mode, whole, simulationTime)
  /\ genQueue = AllGenerationSteps(systemModel)
  /\ pc = StartPc(genQueue)
  /\ state = StateAfterSetup(systemModel)
  /\ results = NoResults
  /\ ghost = InitialGhost
  /\ analysis = NoAnalysis
  /\ test = NoTest

\* the twin takes a step when it can
TwinFollows == IF CanStep(twin) THEN TwinNext ELSE UNCHANGED twin

BothStep == FirstRunNext /\ TwinFollows /\ UNCHANGED <<analysis, test>>

TwinOnly ==
  /\ pc = "done"
  /\ TwinNext
  /\ UNCHANGED <<systemModel, simulationTime, pc, genQueue, state, results,
                 ghost, analysis, test>>

PairNext == BothStep \/ TwinOnly

PairSpec == PairInit /\ [][PairNext]_vars

(***************************************************************************)
(* analyzeSystem.  One action is one iteration of the inner for loop: the  *)
(* analysis of one root component found for one core.                      *)
(***************************************************************************)
\* the (core, root) pairs the two for loops visit, in order
RootsToAnalyze(sysModel) ==
  Flatten([c \in DOMAIN sysModel.cores |->
    LET Found(r) == StartsWithCore(sysModel.rootComponents[r], sysModel.cores[c])
        Visit[r \in 0..Len(sysModel.rootComponents)] ==
          IF r = 0 THEN <<>>
          ELSE IF Found(r) THEN Append(Visit[r - 1], [core |-> c, root |-> r])
          ELSE Visit[r - 1]
    IN Visit[Len(sysModel.rootComponents)]])

NoAnalysisResults == [isSchedulable |-> FALSE, componentInterfaces |-> <<>>]

\* given and first are history: the model as the first call received it,
\* and what the first call returned once a second call has started
StartAnalysis(sysModel) ==
  [pc |-> "running", queue |-> RootsToAnalyze(sysModel),
   isSystemSchedulable |-> TRUE, componentInterfaces |-> <<>>,
   results |-> NoAnalysisResults, given |-> sysModel, first |-> <<>>]

AnalyzerInit ==
  /\ systemModel \in AnalyzerModels
  /\ analysis = StartAnalysis(systemModel)
  /\ simulationTime = 0
  /\ pc = "none"
  /\ genQueue = <<>>
  /\ state = InitialState
  /\ results = NoResults
  /\ ghost = InitialGhost
  /\ twin = NoTwin
  /\ test = NoTest

\* pc = "overflow": a call of calculateMinimumInterface does not return
AnalyzeRootComponent ==
  /\ analysis.pc = "running" /\ analysis.queue # <<>>
  /\ \E result \in
        {analyzeComponent(
           [systemModel.rootComponents[Head(analysis.queue).root] EXCEPT
              !.alpha = RInt(1), !.delta = RInt(0)],
           systemModel.cores[Head(analysis.queue).core].performanceFactor)} :
       /\ systemModel' = [systemModel EXCEPT
                            !.rootComponents[Head(analysis.queue).root] =
                               result.component]
       /\ analysis' =
            IF result.returns
            THEN [analysis EXCEPT
                    !.queue = Tail(@),
                    !.isSystemSchedulable = @ /\ result.isSchedulable,
                    !.componentInterfaces = @ \o result.interfaces]
            ELSE [analysis EXCEPT !.pc = "overflow"]
  /\ UNCHANGED <<simulationTime, pc, genQueue, state, results, ghost, twin,
                 test>>

\* the return statement of analyzeSystem (without the timestamp)
ReturnAnalysis ==
  /\ analysis.pc = "running" /\ analysis.queue = <<>>
  /\ analysis' = [analysis EXCEPT
                    !.pc = "returned",
                    !.results = [isSchedulable |-> analysis.isSystemSchedulable,
                                 componentInterfaces |->
                                   analysis.componentInterfaces]]
  /\ UNCHANGED <<systemModel, simulationTime, pc, genQueue, state, results,
                 ghost, twin, test>>

\* a second call of analyzeSystem, on the model as the first call left it
AnalyzeAgain ==
  /\ analysis.pc = "returned" /\ analysis.first = <<>>
  /\ analysis' = [StartAnalysis(systemModel) EXCEPT
                    !.given = analysis.given,
                    !.first = <<analysis.results>>]
  /\ UNCHANGED <<systemModel, simulationTime, pc, genQueue, state, results,
                 ghost, twin, test>>

AnalyzerNext == AnalyzeRootComponent \/ ReturnAnalysis \/ AnalyzeAgain

AnalyzerSpec == AnalyzerInit /\ [][AnalyzerNext]_vars

(***************************************************************************)
(* AnalyzerPanel.runAnalysis: processComponent for every root component,   *)
(* one action for each, then setResults.  It uses the variable analysis    *)
(* for its locals isSystemSchedulable and componentInterfaces and for the  *)
(* results it shows.                                                       *)
(***************************************************************************)
\* processComponent gives what it pushes to componentInterfaces, whether it
\* leaves isSystemSchedulable alone, and the component as the call leaves it.
\* ProcessChildren is "component.childComponents.forEach(processComponent)"
\* from child i on, AfterProcessChild the rest of it after the call for child i
RECURSIVE processComponent(_)
RECURSIVE ProcessChildren(_, _, _)
AfterProcessChild(children, i, acc, childResult) ==
  ProcessChildren(children, i + 1,
    [isSchedulable |-> acc.isSchedulable /\ childResult.isSchedulable,
     interfaces |-> acc.interfaces \o childResult.interfaces,
     children |-> Append(acc.children, childResult.component)])

ProcessChildren(children, i, acc) ==
  IF i > Len(children) THEN acc
  ELSE AfterProcessChild(children, i, acc, processComponent(children[i]))

AfterProcessChildren(component, interface, kids) ==
  [isSchedulable |-> kids.isSchedulable,
   interfaces |-> kids.interfaces,
   component |-> [component EXCEPT !.alpha = interface.alpha,
                                   !.delta = interface.delta,
                                   !.childComponents = kids.children]]

ProcessWithInterface(component, interface, supply) ==
  AfterProcessChildren(component, interface,
    IF component.hasChildList
    THEN ProcessChildren(component.childComponents, 1,
           [isSchedulable |-> ~RLess(RInt(1), interface.alpha),
            interfaces |-> <<ComponentInterface(component.id, interface.alpha,
                               interface.delta, supply.supplyBudget,
                               supply.supplyPeriod)>>,
            children |-> <<>>])
    ELSE [isSchedulable |-> ~RLess(RInt(1), interface.alpha),
          interfaces |-> <<ComponentInterface(component.id, interface.alpha,
                             interface.delta, supply.supplyBudget,
                             supply.supplyPeriod)>>,
          children |-> component.childComponents])

ProcessInterface(component, interface) ==
  ProcessWithInterface(component, interface,
    applyHalfHalfAlgorithm(interface.alpha, interface.delta))

processComponent(component) ==
  ProcessInterface(component, calculateBDRInterface(component))

\* the models the panel is run on: every component has a task
PanelModels ==
  AnalyzerModels \ {DeltaZero, DeepLateDeadlineChild, ZeroDeadlineChild}

StartPanelAnalysis(sysModel) ==
  [pc |-> "processing",
   queue |-> [r \in DOMAIN sysModel.rootComponents |-> r],
   isSystemSchedulable |-> TRUE,
   componentInterfaces |-> <<>>,
   results |-> NoAnalysisResults]

PanelInit ==
  /\ systemModel \in PanelModels
  /\ analysis = StartPanelAnalysis(systemModel)
  /\ simulationTime = 0
  /\ pc = "none"
  /\ genQueue = <<>>
  /\ state = InitialState
  /\ results = NoResults
  /\ ghost = InitialGhost
  /\ twin = NoTwin
  /\ test = NoTest

ProcessRootComponent ==
  /\ analysis.pc = "processing" /\ analysis.queue # <<>>
  /\ \E result \in
         {processComponent(systemModel.rootComponents[Head(analysis.queue)])} :
       /\ systemModel' = [systemModel EXCEPT
                            !.rootComponents[Head(analysis.queue)] =
                               result.component]
       /\ analysis' =
            [analysis EXCEPT
               !.queue = Tail(@),
               !.isSystemSchedulable = @ /\ result.isSchedulable,
               !.componentInterfaces = @ \o result.interfaces]
  /\ UNCHANGED <<simulationTime, pc, genQueue, state, results, ghost, twin,
                 test>>

SetResults ==
  /\ analysis.pc = "processing" /\ analysis.queue = <<>>
  /\ analysis' = [analysis EXCEPT
                    !.pc = "shown",
                    !.results = [isSchedulable |-> analysis.isSystemSchedulable,
                                 componentInterfaces |->
                                   analysis.componentInterfaces]]
  /\ UNCHANGED <<systemModel, simulationTime, pc, genQueue, state, results,
                 ghost, twin, test>>

PanelNext == ProcessRootComponent \/ SetResults

PanelSpec == PanelInit /\ [][PanelNext]_vars

(***************************************************************************)
(* The functions that take one component or one interface, each called on  *)
(* a component drawn from a bounded set: isSchedulableWithInterface of the *)
(* analyzer, the two isComponentSchedulable and applyHalfHalfAlgorithm of  *)
(* schedulingFunctions.  Every function is called at most once, in any     *)
(* order.                                                                  *)
(***************************************************************************)
\* one or two tasks; in priority order the second task comes first
TestTaskSets ==
  LET first == {PeriodicTask("t1", wcet, period, deadline, 2) :
                  wcet \in 1..MaxTestWcet, period \in {2, 4},
                  deadline \in {2, 3, 4, 12}}
               \cup
               {SporadicTask("t1", wcet, mit, deadline, 2) :
                  wcet \in 1..MaxTestWcet, mit \in {2, 4},
                  deadline \in {2, 3, 4, 12}}
  IN {<<t>> : t \in first}
     \cup {<<t, PeriodicTask("t2", 1, 4, 4, 1)>> : t \in first}

TestComponents ==
  {Component("component", {}, alg, alpha, RInt(delta), tasks, FALSE, <<>>) :
     alg \in {"EDF", "FPS"}, alpha \in {Rat(1, 4), Rat(1, 2), RInt(1)},
     delta \in 0..MaxTestDelta, tasks \in TestTaskSets}

StartTest(component, corePerformanceFactor) ==
  [pc |-> "testing", component |-> component,
   corePerformanceFactor |-> corePerformanceFactor,
   isSchedulableWithInterface |-> <<>>,
   isComponentSchedulable |-> <<>>,
   isComponentSchedulableOverHyperperiod |-> <<>>,
   applyHalfHalfAlgorithm |-> <<>>]

FeasibilityInit ==
  /\ \E component \in TestComponents :
       \E corePerformanceFactor \in {RInt(1), Rat(4, 5)} :
         test = StartTest(component, corePerformanceFactor)
  /\ systemModel = SystemModel(<<>>, <<>>)
  /\ simulationTime = 0
  /\ pc = "none"
  /\ genQueue = <<>>
  /\ state = InitialState
  /\ results = NoResults
  /\ ghost = InitialGhost
  /\ twin = NoTwin
  /\ analysis = NoAnalysis

TestIsSchedulableWithInterface ==
  /\ test.pc = "testing" /\ test.isSchedulableWithInterface = <<>>
  /\ test' = [test EXCEPT !.isSchedulableWithInterface =
                <<isSchedulableWithInterface(test.component,
                                             test.corePerformanceFactor)>>]
  /\ UNCHANGED <<systemModel, simulationTime, pc, genQueue, state, results,
                 ghost, twin, analysis>>

TestIsComponentSchedulable ==
  /\ test.pc = "testing" /\ test.isComponentSchedulable = <<>>
  /\ test' = [test EXCEPT !.isComponentSchedulable =
                <<isComponentSchedulable(test.component)>>]
  /\ UNCHANGED <<systemModel, simulationTime, pc, genQueue, state, results,
                 ghost, twin, analysis>>

TestIsComponentSchedulableOverHyperperiod ==
  /\ test.pc = "testing" /\ test.isComponentSchedulableOverHyperperiod = <<>>
  /\ test' = [test EXCEPT !.isComponentSchedulableOverHyperperiod =
                <<isComponentSchedulableOverHyperperiod(test.component)>>]
  /\ UNCHANGED <<systemModel, simulationTime, pc, genQueue, state, results,
                 ghost, twin, analysis>>

TestApplyHalfHalfAlgorithm ==
  /\ test.pc = "testing" /\ test.applyHalfHalfAlgorithm = <<>>
  /\ test' = [test EXCEPT !.applyHalfHalfAlgorithm =
                <<applyHalfHalfAlgorithm(test.component.alpha,
                                         test.component.delta)>>]
  /\ UNCHANGED <<systemModel, simulationTime, pc, genQueue, state, results,
                 ghost, twin, analysis>>

FeasibilityNext ==
  \/ TestIsSchedulableWithInterface
  \/ TestIsComponentSchedulable
  \/ TestIsComponentSchedulableOverHyperperiod
  \/ TestApplyHalfHalfAlgorithm

FeasibilitySpec == FeasibilityInit /\ [][FeasibilityNext]_vars

(***************************************************************************)
(* The demand bound function of EDF, in its two versions, applied to one   *)
(* task set at t = 0, 1, 2, ...: test.dbf and test.dbfOverHyperperiod hold *)
(* the values returned so far, in the order of t.  The task sets are those *)
(* of the feasibility tests, with the wcet as it is and as it is on a core *)
(* of performance factor 4/5.                                              *)
(***************************************************************************)
DemandTaskSets ==
  {[i \in DOMAIN tasks |->
      [tasks[i] EXCEPT !.wcet = Norm(RDiv(RInt(@), factor))]] :
     tasks \in TestTaskSets, factor \in {RInt(1), Rat(4, 5)}}

DemandInit ==
  /\ \E tasks \in DemandTaskSets :
       test = [pc |-> "demand", tasks |-> tasks, dbf |-> <<>>,
               dbfOverHyperperiod |-> <<>>]
  /\ systemModel = SystemModel(<<>>, <<>>)
  /\ simulationTime = 0
  /\ pc = "none"
  /\ genQueue = <<>>
  /\ state = InitialState
  /\ results = NoResults
  /\ ghost = InitialGhost
  /\ twin = NoTwin
  /\ analysis = NoAnalysis

ApplyCalculateDBFforEDF ==
  /\ test.pc = "demand" /\ Len(test.dbf) <= MaxDemandTime
  /\ test' = [test EXCEPT !.dbf =
                Append(@, calculateDBFforEDF(test.tasks, Len(test.dbf)))]
  /\ UNCHANGED <<systemModel, simulationTime, pc, genQueue, state, results,
                 ghost, twin, analysis>>

ApplyCalculateDBFforEDFOverHyperperiod ==
  /\ test.pc = "demand" /\ Len(test.dbfOverHyperperiod) <= MaxDemandTime
  /\ test' = [test EXCEPT !.dbfOverHyperperiod =
                Append(@, calculateDBFforEDFOverHyperperiod(
                            test.tasks, Len(test.dbfOverHyperperiod)))]
  /\ UNCHANGED <<systemModel, simulationTime, pc, genQueue, state, results,
                 ghost, twin, analysis>>

DemandNext ==
  \/ ApplyCalculateDBFforEDF
  \/ ApplyCalculateDBFforEDFOverHyperperiod

DemandSpec == DemandInit /\ [][DemandNext]_vars

(***************************************************************************)
(* csvParser: createSystemModelFromTasks builds a model from the tasks of  *)
(* a CSV file; the model is then given to analyzeSystem and runSimulation, *)
(* one call after the other, in either order.  test.tasks is the argument. *)
(***************************************************************************)
\* a model whose root has an id that names no core
createSystemModelFromTasksWithPlainRootId(tasks) ==
  LET core == Core("core1", RInt(1))
      rootComponent ==
        Component("root", {}, "EDF", RInt(1), RInt(0), tasks, FALSE, <<>>)
  IN SystemModel(<<core>>, <<rootComponent>>)

\* the id of the root is `core-${core.id}`, which starts with itself
createSystemModelFromTasks(tasks) ==
  LET core == Core("core1", RInt(1))
      rootComponent ==
        Component("core-" \o core.id, {core.id}, "EDF", RInt(1), RInt(0),
                  tasks, FALSE, <<>>)
  IN SystemModel(<<core>>, <<rootComponent>>)

\* what parseTasksFromCSV returns for files of no, one or two lines: periodic
\* tasks, with or without a priority
CsvTaskLists ==
  LET first == {PeriodicTask("t1", 1, 4, 4, 0), PeriodicTask("t1", 3, 4, 3, 2)}
      second == {PeriodicTask("t2", 1, 3, 3, 1), PeriodicTask("t2", 2, 6, 5, 0)}
  IN {<<>>} \cup {<<a>> : a \in first \cup second}
     \cup {<<a, b>> : a \in first, b \in second}
     \cup {<<b, a>> : a \in first, b \in second}

\* the horizons of the runs on the created models
CsvHorizons == {1, 5, 6}

CsvInit ==
  /\ \E tasks \in CsvTaskLists : test = [pc |-> "parsed", tasks |-> tasks]
  /\ simulationTime \in CsvHorizons
  /\ systemModel = SystemModel(<<>>, <<>>)
  /\ pc = "none"
  /\ genQueue = <<>>
  /\ state = InitialState
  /\ results = NoResults
  /\ ghost = InitialGhost
  /\ twin = NoTwin
  /\ analysis = NoAnalysis

CreateSystemModelFromTasks ==
  /\ test.pc = "parsed"
  /\ systemModel' = createSystemModelFromTasks(test.tasks)
  /\ test' = [test EXCEPT !.pc = "created"]
  /\ UNCHANGED <<simulationTime, pc, genQueue, state, results, ghost, twin,
                 analysis>>

\* analyzeSystem is called on the created model
AnalyzeCreatedModel ==
  /\ test.pc = "created"
  /\ analysis = NoAnalysis /\ pc \in {"none", "done"}
  /\ analysis' = StartAnalysis(systemModel)
  /\ UNCHANGED <<systemModel, simulationTime, pc, genQueue, state, results,
                 ghost, twin, test>>

\* runSimulation is called on the created model
SimulateCreatedModel ==
  /\ test.pc = "created"
  /\ pc = "none" /\ analysis.pc \in {"none", "returned"}
  /\ genQueue' = AllGenerationSteps(systemModel)
  /\ pc' = StartPc(genQueue')
  /\ state' = StateAfterSetup(systemModel)
  /\ UNCHANGED <<systemModel, simulationTime, results, ghost, twin, analysis,
                 test>>

CsvNext ==
  \/ CreateSystemModelFromTasks
  \/ AnalyzeCreatedModel
  \/ AnalyzeRootComponent
  \/ ReturnAnalysis
  \/ SimulateCreatedModel
  \/ GenerateTaskArrivals /\ UNCHANGED <<twin, analysis, test>>
  \/ TaskArrival /\ UNCHANGED <<twin, analysis, test>>
  \/ TaskDeadline /\ UNCHANGED <<twin, analysis, test>>
  \/ TaskCompletion /\ UNCHANGED <<twin, analysis, test>>
  \/ ReturnResults /\ UNCHANGED <<twin, analysis, test>>

CsvSpec == CsvInit /\ [][CsvNext]_vars

(***************************************************************************)
(* Claims about runSimulation.                                             *)
(***************************************************************************)
PeriodOf(task) ==
  IF task.period # 0 THEN task.period ELSE task.minimumInterArrivalTime

CeilDiv(a, b) == (a + b - 1) \div b

\* the jobs of a task whose deadline event was handled before they had
\* occupied the active slot for their whole adjusted execution time
LateJobs(g, taskId) ==
  {j \in DOMAIN g.jobs :
     g.jobs[j].taskId = taskId /\ g.jobs[j].due /\ g.jobs[j].late}

\* C1: at the end of the run the missed-deadline counter of every task is
\* the number of its jobs that had not finished their full adjusted execution
\* at their absolute deadline
C1_MissedCounterIsExact ==
  pc = "done" =>
    \A i \in DOMAIN state.missedDeadlinesByTask :
      state.missedDeadlinesByTask[i].value =
        Cardinality(LateJobs(ghost, state.missedDeadlinesByTask[i].key))

\* one core of performance factor 1 and a single EDF root of periodic tasks
\* with deadline = period and total utilization at most 1
ImplicitDeadlineEdfRoot(sysModel) ==
  /\ Len(sysModel.cores) = 1
  /\ sysModel.cores[1].performanceFactor = RInt(1)
  /\ Len(sysModel.rootComponents) = 1
  /\ LET root == sysModel.rootComponents[1]
         U[i \in 0..Len(root.tasks)] ==
           IF i = 0 THEN Rat(0, 1)
           ELSE RAdd(U[i - 1], Rat(root.tasks[i].wcet, root.tasks[i].period))
     IN /\ root.schedulingAlgorithm = "EDF"
        /\ StartsWithCore(root, sysModel.cores[1])
        /\ root.childComponents = <<>>
        /\ \A i \in DOMAIN root.tasks :
             /\ root.tasks[i].type = "periodic"
             /\ root.tasks[i].deadline = root.tasks[i].period
        /\ RLeq(U[Len(root.tasks)], RInt(1))

\* C2: for one core of factor 1 and a single EDF root of periodic tasks with
\* deadline = period and utilization at most 1, runSimulation reports
\* missedDeadlines = 0 for every task
C2_NoMissUpToFullUtilization ==
  (pc = "done" /\ ImplicitDeadlineEdfRoot(systemModel)) =>
    \A i \in DOMAIN results.taskResponseTimes :
      results.taskResponseTimes[i].missedDeadlines = 0

\* C3: every component reported in componentUtilizations has
\* utilization <= alpha + 1/T
C3_UtilizationWithinAllocation ==
  pc = "done" =>
    \A i \in DOMAIN results.componentUtilizations :
      LET u == results.componentUtilizations[i]
      IN RLeq(u.utilization,
              RAdd(u.allocatedUtilization, Rat(1, simulationTime)))

\* what a run reports and the order in which it dispatched its jobs
Outcome(runResults, runState, runGhost) ==
  [results |-> runResults,
   responseTimes |-> runState.responseTimeByTask,
   missedDeadlines |-> runState.missedDeadlinesByTask,
   executionTimes |-> runState.executionTimeByComponent,
   dispatched |-> runGhost.dispatched]

\* C4: two runs on the same model and horizon produce identical results and
\* dispatch the same jobs in the same order, whatever instanceIds are drawn
C4_RunsAreIdentical ==
  (pc = "done" /\ twin.pc = "done" /\ twin.mode = "same") =>
    Outcome(results, state, ghost) = Outcome(twin.results, twin.state, twin.ghost)

\* C5: the response times and missed deadlines reported for the tasks of one
\* core are those of the run of that core's subtree alone (runs in which two
\* jobs of a task shared an instanceId are left aside)
C5_CoresDoNotInterfere ==
  (/\ pc = "done" /\ twin.pc = "done" /\ twin.mode = "whole"
   /\ ~ghost.collided /\ ~twin.ghost.collided) =>
    \A i \in DOMAIN results.taskResponseTimes :
      \E j \in DOMAIN twin.results.taskResponseTimes :
        twin.results.taskResponseTimes[j] = results.taskResponseTimes[i]

\* C6: runSimulation terminates for every model and horizon, a child with
\* delta = 0 included: the while loop of generateInitialEvents pushes finitely
\* many supply windows, so that it never fills the events array (MaxEvents is
\* more than the events of any run whose loops end)
C6_RunTerminates == pc # "exhausted"

\* the tiebreak class of an event type
ClassOf(type) ==
  CASE type = "resource-supply-end" -> 1
    [] type = "arrival" -> 2
    [] type = "deadline" -> 3
    [] type = "resource-supply-start" -> 4
    [] type = "completion" -> 5
    [] OTHER -> 0

\* C7: events of one timestamp are handled in the class order supply-end,
\* arrival, deadline, supply-start, completion: no event still pending at
\* the time of the event handled last is of an earlier class.  (A handler
\* pushes events of later times only, so the pending events of that time
\* were pending when the event was shifted; within a class the stable sort
\* keeps the order of insertion.)
C7_ClassOrderAtOneInstant ==
  (pc = "loop" /\ ghost.lastEvent # NoEvent) =>
    \A i \in DOMAIN state.events :
      state.events[i].time = ghost.lastEvent.time =>
        ClassOf(state.events[i].type) >= ClassOf(ghost.lastEvent.type)

\* C8: the missed-deadline counter of a task never exceeds ceil(T / P), and
\* neither does the missedDeadlines value reported for it
C8_MissedAtMostJobs ==
  LET all == getAllTasks(systemModel)
  IN \A k \in DOMAIN all :
       LET task == all[k].task
           bound == CeilDiv(simulationTime, PeriodOf(task))
       IN /\ MapGet(state.missedDeadlinesByTask, task.id) <= bound
          /\ \A i \in DOMAIN results.taskResponseTimes :
               results.taskResponseTimes[i].taskId = task.id =>
                 results.taskResponseTimes[i].missedDeadlines <= bound

\* a run has returned and reports, for some task, as many missed deadlines
\* as the task had jobs
C8_Witness ==
  /\ pc = "done"
  /\ LET all == getAllTasks(systemModel)
     IN \E k \in DOMAIN all, i \in DOMAIN results.taskResponseTimes :
          /\ results.taskResponseTimes[i].taskId = all[k].task.id
          /\ results.taskResponseTimes[i].missedDeadlines =
               CeilDiv(simulationTime, PeriodOf(all[k].task))

\* C9: a supply-end event of the component of the active job puts the job
\* back into the ready queue with its remaining time reduced by the time
\* elapsed since its dispatch, and clears the active slot (the rescheduling
\* that follows can fill it with a job of another component only); the flag
\* of the component becomes false; an active job of another component stays
\* active
C9_SupplyEndPreempts ==
  [][(pc = "loop" /\ LoopCondition(state, simulationTime)
      /\ NextEvent(state).type = "resource-supply-end") =>
       LET event == NextEvent(state)
           active == state.activeTask
       IN /\ MapGet(state'.resourceAvailableByComponent, event.componentId) = FALSE
          /\ (active # NoTask /\ active.componentId = event.componentId) =>
               /\ \/ state'.activeTask = NoTask
                  \/ state'.activeTask.componentId # event.componentId
               /\ \E i \in DOMAIN state'.readyQueue :
                    state'.readyQueue[i] =
                      [active EXCEPT !.remainingTime =
                         @ - (event.time - ghost.dispatchedAt)]
          /\ (active # NoTask /\ active.componentId # event.componentId) =>
               state'.activeTask = active
     ]_vars

(***************************************************************************)
(* Claims about analyzeSystem.                                             *)
(***************************************************************************)
\* the worst-case response time of task i of a fixed-priority task set on a
\* dedicated processor: the least fixed point of
\* R = C_i + sum over the tasks j of higher priority of ceil(R / T_j) * C_j,
\* searched from r; a value beyond the deadline ends the search
RECURSIVE ResponseTime(_, _, _)
ResponseTime(tasks, i, r) ==
  LET Interference[j \in 0..Len(tasks)] ==
        IF j = 0 THEN 0
        ELSE IF tasks[j].priority < tasks[i].priority
        THEN Interference[j - 1] + CeilDiv(r, PeriodOf(tasks[j])) * tasks[j].wcet
        ELSE Interference[j - 1]
      next == tasks[i].wcet + Interference[Len(tasks)]
  IN IF next = r \/ next > tasks[i].deadline THEN next
     ELSE ResponseTime(tasks, i, next)

\* the only component is an FPS root on a core of factor 1, and every
\* task's worst-case response time is at most its deadline
FpsRootMeetingDeadlines(sysModel) ==
  /\ Len(sysModel.cores) = 1
  /\ sysModel.cores[1].performanceFactor = RInt(1)
  /\ Len(sysModel.rootComponents) = 1
  /\ LET root == sysModel.rootComponents[1]
     IN /\ root.schedulingAlgorithm = "FPS"
        /\ StartsWithCore(root, sysModel.cores[1])
        /\ root.childComponents = <<>>
        /\ root.tasks # <<>>
        /\ \A i \in DOMAIN root.tasks :
             ResponseTime(root.tasks, i, root.tasks[i].wcet)
               <= root.tasks[i].deadline

\* C10: analyzeSystem reports isSchedulable = true for a model whose only
\* component is an FPS root (alpha = 1, delta = 0, core factor 1) in which
\* every task's worst-case response time is at most its deadline
C10_FpsRootWithinDeadlinesIsSchedulable ==
  (analysis.pc = "returned" /\ FpsRootMeetingDeadlines(systemModel)) =>
    analysis.results.isSchedulable = TRUE

\* C18: no step of runSimulation changes the SystemModel: the cores, every
\* component's alpha, delta, scheduling algorithm, task list and child list,
\* and every task field keep their values
C18_SimulationLeavesModelUnchanged == [][systemModel' = systemModel]_vars

\* a run has returned after it has dispatched and completed a job of a root
\* component that has a child component
C18_Witness ==
  /\ pc = "done"
  /\ \E r \in DOMAIN systemModel.rootComponents :
       LET root == systemModel.rootComponents[r]
       IN /\ root.hasChildList /\ root.childComponents # <<>>
          /\ \E i \in DOMAIN state.completedTasks :
               state.completedTasks[i].componentId = root.id

\* the direct children of the roots as the analysis leaves them, each with
\* the performance factor of a core its root is analyzed for
AnalyzedChildren(sysModel) ==
  LET visits == RootsToAnalyze(sysModel)
  IN UNION {{[component |-> sysModel.rootComponents[visits[q].root].childComponents[j],
              factor |-> sysModel.cores[visits[q].core].performanceFactor] :
               j \in DOMAIN sysModel.rootComponents[visits[q].root].childComponents} :
            q \in DOMAIN visits}

\* the deltas 0, 1, ..., 2 * (the largest deadline of the component)
WholeDeltas(component) ==
  IF component.tasks = <<>> THEN {0}
  ELSE 0..(2 * Max([i \in DOMAIN component.tasks |-> component.tasks[i].deadline]))

\* C11: if a non-root component passes the feasibility test for some delta
\* in [0, 2 * max deadline] at the alpha the synthesizer chose, it passes the
\* test at the delta the binary search returned for it
C11_SearchReturnsPassingDelta ==
  analysis.pc = "returned" =>
    \A c \in AnalyzedChildren(systemModel) :
      (\E delta \in WholeDeltas(c.component) :
         isSchedulableWithInterface(
           [c.component EXCEPT !.delta = RInt(delta)], c.factor))
      => isSchedulableWithInterface(c.component, c.factor)

\* the sum of wcet / period over the tasks of a component, each wcet divided
\* by the performance factor
TaskUtilization(component, factor) ==
  LET tasks == AdjustedTasks(component, factor)
      sum[i \in 0..Len(tasks)] ==
        IF i = 0 THEN RInt(0)
        ELSE IF PeriodOrMit(tasks[i]) # 0
        THEN Norm(RAdd(sum[i - 1],
                       RDiv(tasks[i].wcet, RInt(PeriodOrMit(tasks[i])))))
        ELSE sum[i - 1]
  IN sum[Len(tasks)]

\* the sum of Q / P over the supply tasks of the children, (Q, P) being what
\* applyHalfHalfAlgorithm gives for the interface written into each child
SupplyUtilization(children) ==
  LET supplyTask(child) == applyHalfHalfAlgorithm(child.alpha, child.delta)
      sum[i \in 0..Len(children)] ==
        IF i = 0 THEN RInt(0)
        ELSE IF /\ IsDefined(children[i].alpha) /\ IsDefined(children[i].delta)
                /\ supplyTask(children[i]).supplyPeriod.n > 0
        THEN Norm(RAdd(sum[i - 1],
                       RDiv(supplyTask(children[i]).supplyBudget,
                            supplyTask(children[i]).supplyPeriod)))
        ELSE sum[i - 1]
  IN sum[Len(children)]

\* C12: a root whose own tasks together with the supply tasks (Q, P) of its
\* children have a utilization above its alpha, so that they exceed its
\* supply, makes the analysis report the system unschedulable
C12_ParentTestCountsChildSupply ==
  analysis.pc = "returned" =>
    \A q \in DOMAIN RootsToAnalyze(systemModel) :
      LET visit == RootsToAnalyze(systemModel)[q]
          root == systemModel.rootComponents[visit.root]
          factor == systemModel.cores[visit.core].performanceFactor
      IN RLess(root.alpha,
               RAdd(TaskUtilization(root, factor),
                    SupplyUtilization(root.childComponents)))
         => ~analysis.results.isSchedulable

\* the ids of the components of a list of components and of their subtrees
RECURSIVE ComponentIds(_)
ComponentIds(components) ==
  UNION {{components[i].id} \cup ComponentIds(components[i].childComponents) :
           i \in DOMAIN components}

\* C14: the componentInterfaces analyzeSystem returns hold exactly one record
\* for every component of the model, root or not
C14_OneRecordPerComponent ==
  analysis.pc = "returned" =>
    \A id \in ComponentIds(systemModel.rootComponents) :
      Cardinality({i \in DOMAIN analysis.results.componentInterfaces :
                     analysis.results.componentInterfaces[i].componentId = id})
        = 1

\* C15: when an analysis run has ended (analyzeSystem has returned, or the
\* analysis of the AnalyzerPanel has set its results), every root component
\* of the model has alpha = 1 and delta = 0
C15_RootsHaveFullSupply ==
  analysis.pc \in {"returned", "shown"} =>
    \A r \in DOMAIN systemModel.rootComponents :
      /\ systemModel.rootComponents[r].alpha = RInt(1)
      /\ systemModel.rootComponents[r].delta = RInt(0)

\* C16: a second call of analyzeSystem on the model the first call has
\* written into returns the isSchedulable and the componentInterfaces
\* (componentId, alpha, delta, supplyBudget, supplyPeriod, in order) that the
\* first call returned
C16_SecondAnalysisReturnsTheSame ==
  (analysis.pc = "returned" /\ analysis.first # <<>>) =>
    /\ analysis.results.isSchedulable = analysis.first[1].isSchedulable
    /\ analysis.results.componentInterfaces =
         analysis.first[1].componentInterfaces

\* the second call has returned, on a model whose alpha and delta the first
\* call had changed, and has returned the interface of a non-root component
C16_Witness ==
  /\ analysis.pc = "returned" /\ analysis.first # <<>>
  /\ systemModel # analysis.given
  /\ \E i \in DOMAIN analysis.results.componentInterfaces :
       IsDefined(analysis.results.componentInterfaces[i].supplyPeriod)

\* C17: for a model with a root component whose id starts with "core-<id>"
\* for no declared core, analyzeSystem and runSimulation report an error:
\* neither returns a result
C17_UnboundRootIsReported ==
  (\E r \in DOMAIN systemModel.rootComponents :
     \A c \in DOMAIN systemModel.cores :
       ~StartsWithCore(systemModel.rootComponents[r], systemModel.cores[c]))
  => (analysis.pc # "returned" /\ pc # "done")

(***************************************************************************)
(* Claims about the feasibility tests and the supply task.                 *)
(***************************************************************************)
\* C13: a feasibility test called on a component whose total utilization,
\* each wcet divided by the performance factor, is strictly greater than
\* alpha returns false, whatever delta and the discipline are
\* (isComponentSchedulable takes no performance factor: factor 1)
C13_UtilizationAboveAlphaFails ==
  (/\ test.pc = "testing"
   /\ RLess(test.component.alpha,
            TaskUtilization(test.component, test.corePerformanceFactor)))
  => /\ test.isSchedulableWithInterface # <<TRUE>>
     /\ test.corePerformanceFactor = RInt(1)
          => test.isComponentSchedulable # <<TRUE>>

\* the demand the test of the component's discipline reads at t is positive
PositiveDemand(component, t) ==
  IF component.schedulingAlgorithm = "EDF"
  THEN RLess(RInt(0), calculateDBFforEDF(SortedTasks(component), t))
  ELSE \E i \in DOMAIN component.tasks :
         RLess(RInt(0), calculateDBFforFPS(SortedTasks(component), t, i))

\* a deadline within the hyperperiod (a check point of every feasibility
\* test) that is at most delta, delta > 0, and has positive demand
EarlyCheckPoint(component) ==
  /\ RLess(RInt(0), component.delta)
  /\ \E i \in DOMAIN component.tasks :
       /\ component.tasks[i].deadline <= Hyperperiod(SortedTasks(component))
       /\ RLeq(RInt(component.tasks[i].deadline), component.delta)
       /\ PositiveDemand(component, component.tasks[i].deadline)

\* C19: every feasibility test compares the demand with sbf_bdr(alpha, delta,
\* t), which is 0 for t <= delta: called on a component with delta > 0 and a
\* check point t <= delta of positive demand, each test returns false
C19_TestsReadSupplyBound ==
  (test.pc = "testing" /\ EarlyCheckPoint(test.component)) =>
    /\ test.isSchedulableWithInterface # <<TRUE>>
    /\ test.isComponentSchedulable # <<TRUE>>
    /\ test.isComponentSchedulableOverHyperperiod # <<TRUE>>

\* Math.floor(t / P) for a rational P > 0
PeriodsBefore(t, P) == (t * P.d) \div P.n

\* t lies in a supply window [kP, kP + Q)
InSupplyWindow(t, Q, P) ==
  RLess(RSub(RInt(t), RMul(RInt(PeriodsBefore(t, P)), P)), Q)

\* C20: for alpha in (0, 1] and delta > 0 the supply task of
\* applyHalfHalfAlgorithm has P = 2 * delta and Q = alpha * P, and at every
\* t >= 0 outside the supply windows [kP, kP + Q) (here: the whole t of the
\* first two periods) sbf_bdr(alpha, delta, t) <= Q * floor(t / P)
C20_SupplyTaskCoversSupplyBound ==
  (/\ test.pc = "testing" /\ test.applyHalfHalfAlgorithm # <<>>
   /\ RLess(RInt(0), test.component.alpha)
   /\ RLeq(test.component.alpha, RInt(1))
   /\ RLess(RInt(0), test.component.delta))
  => LET alpha == test.component.alpha
         delta == test.component.delta
         P == test.applyHalfHalfAlgorithm[1].supplyPeriod
         Q == test.applyHalfHalfAlgorithm[1].supplyBudget
     IN /\ P = Norm(RMul(RInt(2), delta))
        /\ Q = Norm(RMul(alpha, P))
        /\ \A t \in 0..(2 * Ticks(P)) :
             ~InSupplyWindow(t, Q, P)
             => RLeq(calculateSBFforBDR(alpha, delta, t),
                     RMul(Q, RInt(PeriodsBefore(t, P))))

\* C20, amended: for alpha in (0, 1] and delta > 0 the supply task of
\* applyHalfHalfAlgorithm has P = 2 * delta and Q = alpha * P, and at every
\* t >= 0 outside the supply windows [kP, kP + Q) (here: the whole t of the
\* first two periods) sbf_bdr(alpha, delta, t) <= Q * (floor(t / P) + 1),
\* the budget of the windows that have started by t
C20_SupplyTaskCoversSupplyBoundWithStartedWindows ==
  (/\ test.pc = "testing" /\ test.applyHalfHalfAlgorithm # <<>>
   /\ RLess(RInt(0), test.component.alpha)
   /\ RLeq(test.component.alpha, RInt(1))
   /\ RLess(RInt(0), test.component.delta))
  => LET alpha == test.component.alpha
         delta == test.component.delta
         P == test.applyHalfHalfAlgorithm[1].supplyPeriod
         Q == test.applyHalfHalfAlgorithm[1].supplyBudget
     IN /\ P = Norm(RMul(RInt(2), delta))
        /\ Q = Norm(RMul(alpha, P))
        /\ \A t \in 0..(2 * Ticks(P)) :
             ~InSupplyWindow(t, Q, P)
             => RLeq(calculateSBFforBDR(alpha, delta, t),
                     RMul(Q, RInt(PeriodsBefore(t, P) + 1)))

\* applyHalfHalfAlgorithm has been called for alpha < 1 and delta > 0, and
\* some t of the second period lies outside the supply windows and has a
\* positive supply bound
C20_Witness ==
  /\ test.pc = "testing" /\ test.applyHalfHalfAlgorithm # <<>>
  /\ RLess(RInt(0), test.component.alpha)
  /\ RLess(test.component.alpha, RInt(1))
  /\ RLess(RInt(0), test.component.delta)
  /\ \E t \in 0..(2 * Ticks(test.applyHalfHalfAlgorithm[1].supplyPeriod)) :
       /\ PeriodsBefore(t, test.applyHalfHalfAlgorithm[1].supplyPeriod) = 1
       /\ ~InSupplyWindow(t, test.applyHalfHalfAlgorithm[1].supplyBudget,
                          test.applyHalfHalfAlgorithm[1].supplyPeriod)
       /\ RLess(RInt(0), calculateSBFforBDR(test.component.alpha,
                                            test.component.delta, t))

(***************************************************************************)
(* Claims about the demand bound function.                                 *)
(***************************************************************************)
\* C21: for a task set with positive wcet, deadline and period or MIT, both
\* versions of calculateDBFforEDF return 0 at t = 0 and a demand at t + 1
\* that is at least the demand at t
C21_DemandIsNonDecreasingFromZero ==
  test.pc = "demand" =>
    \A values \in {test.dbf, test.dbfOverHyperperiod} :
      /\ values # <<>> => values[1] = RInt(0)
      /\ \A t \in 1..(Len(values) - 1) : RLeq(values[t], values[t + 1])

\* both versions have been applied up to MaxDemandTime to a task set with a
\* task whose deadline is beyond its period, and the demand has grown
C21_Witness ==
  /\ test.pc = "demand"
  /\ \E i \in DOMAIN test.tasks :
       test.tasks[i].deadline > PeriodOrMit(test.tasks[i])
  /\ \A values \in {test.dbf, test.dbfOverHyperperiod} :
       /\ Len(values) = MaxDemandTime + 1
       /\ RLess(values[1], values[Len(values)])

(***************************************************************************)
(* Claims about createSystemModelFromTasks.                                *)
(***************************************************************************)
\* C22: the model createSystemModelFromTasks returns has exactly one core, of
\* performance factor 1, and exactly one root component: EDF, alpha = 1,
\* delta = 0, with the given tasks in the given order and an id that starts
\* with "core-<the core's id>"; so the analyzer visits the root for the core
\* and reports an interface for it, and the simulator finds every task,
\* creates a job of it at time 0 and reports it
C22_CreatedModelIsOneBoundEdfRoot ==
  test.pc = "created" =>
    /\ Len(systemModel.cores) = 1
    /\ systemModel.cores[1].performanceFactor = RInt(1)
    /\ Len(systemModel.rootComponents) = 1
    /\ LET root == systemModel.rootComponents[1]
           all == getAllTasks(systemModel)
       IN /\ root.schedulingAlgorithm = "EDF"
          /\ root.alpha = RInt(1) /\ root.delta = RInt(0)
          /\ root.tasks = test.tasks
          /\ StartsWithCore(root, systemModel.cores[1])
          /\ RootsToAnalyze(systemModel) = <<[core |-> 1, root |-> 1]>>
          /\ [k \in DOMAIN all |-> all[k].task] = test.tasks
          /\ analysis.pc = "returned" =>
               \E i \in DOMAIN analysis.results.componentInterfaces :
                 analysis.results.componentInterfaces[i].componentId = root.id
          /\ pc = "done" =>
               \A k \in DOMAIN test.tasks :
                 /\ \E j \in DOMAIN ghost.jobs :
                      ghost.jobs[j].taskId = test.tasks[k].id
                 /\ \E i \in DOMAIN results.taskResponseTimes :
                      results.taskResponseTimes[i].taskId = test.tasks[k].id

\* a model created from two tasks has been analyzed and simulated
C22_Witness ==
  /\ test.pc = "created" /\ Len(test.tasks) = 2
  /\ analysis.pc = "returned" /\ pc = "done"
  /\ Len(ghost.jobs) > 2

(***************************************************************************)
(* Claims about dispatch, preemption and the supply windows.               *)
(***************************************************************************)
\* the time job j has occupied the active slot up to the time now
Occupied(g, active, j, now) ==
  g.jobs[j].ran + (IF active # NoTask /\ active.job = j
                   THEN now - g.dispatchedAt ELSE 0)

\* C23: a completion event that finds a job in the active slot was pushed by
\* the dispatch of that job, and at the time of the event the job has
\* occupied the active slot for its whole adjusted execution time
C23_CompletionIsForItsJobAfterFullExecution ==
  (/\ pc = "loop" /\ LoopCondition(state, simulationTime)
   /\ NextEvent(state).type = "completion"
   /\ state.activeTask # NoTask) =>
    /\ NextEvent(state).job = state.activeTask.job
    /\ Occupied(ghost, state.activeTask, state.activeTask.job,
                NextEvent(state).time) = state.activeTask.executionTime

\* the non-root components of the model that findComponentById finds
ChildrenOfRoots(sysModel) ==
  Flatten([r \in DOMAIN sysModel.rootComponents |->
             sysModel.rootComponents[r].childComponents])

\* the length of the supply windows [kP, kP + Q) of a child inside [0, T)
SupplyInside(child, T) ==
  LET P == SupplyPeriod(child)
      Q == SupplyBudget(child)
  IN (T \div P) * Q + (IF T % P < Q THEN T % P ELSE Q)

\* C24: when the run has returned and the only job it created is a job of a
\* non-root component whose adjusted WCET is larger than the supply budget Q
\* and at most the supply inside the horizon, a response time is recorded
\* for the job
C24_JobLongerThanBudgetCompletes ==
  (pc = "done" /\ Len(ghost.jobs) = 1) =>
    \A i \in DOMAIN ChildrenOfRoots(systemModel) :
      LET child == ChildrenOfRoots(systemModel)[i]
          job == ghost.jobs[1]
      IN (/\ job.componentId = child.id
          /\ child.delta.n > 0
          /\ job.executionTime > SupplyBudget(child)
          /\ SupplyInside(child, simulationTime) >= job.executionTime) =>
           MapGet(state.responseTimeByTask, job.taskId) # <<>>

\* the time the jobs of a component have occupied the active slot when the
\* run has ended at the time end
OccupiedByComponent(g, active, componentId, end) ==
  LET share[j \in 0..Len(g.jobs)] ==
        IF j = 0 THEN 0
        ELSE IF g.jobs[j].componentId = componentId
        THEN share[j - 1] + g.jobs[j].ran
             + (IF active # NoTask /\ active.job = j /\ end > g.dispatchedAt
                THEN end - g.dispatchedAt ELSE 0)
        ELSE share[j - 1]
  IN share[Len(g.jobs)]

\* C25: when the run has returned, the executed time accumulated for a
\* component is the time its jobs have occupied the active slot, the run
\* ending at the horizon or at the time of the last event handled
C25_ExecutedTimeIsOccupiedTime ==
  pc = "done" =>
    \A i \in DOMAIN state.executionTimeByComponent :
      \E end \in {simulationTime, state.currentTime} :
        state.executionTimeByComponent[i].value =
          OccupiedByComponent(ghost, state.activeTask,
                              state.executionTimeByComponent[i].key, end)

\* the resource_available flag of a component is true
Available(flags, componentId) ==
  MapHas(flags, componentId) /\ MapGet(flags, componentId) = TRUE

\* C26: between two iterations of the main loop and after the last, the
\* active job (if any) belongs to a component whose flag is true, and the
\* job a dispatch selected belonged to a component whose flag dispatch read
\* as true (so a dispatch that finds no ready job of an available component
\* leaves the active slot empty)
C26_ActiveJobHasSupply ==
  /\ state.activeTask # NoTask =>
       Available(state.resourceAvailableByComponent,
                 state.activeTask.componentId)
  /\ ghost.chosen # NoTask =>
       Available(ghost.chosenFrom.available, ghost.chosen.componentId)

\* a job of a child is active inside a supply window after the job was
\* preempted at the end of an earlier window
C26_Witness ==
  /\ state.activeTask # NoTask
  /\ \E i \in DOMAIN ChildrenOfRoots(systemModel) :
       ChildrenOfRoots(systemModel)[i].id = state.activeTask.componentId
  /\ ghost.jobs[state.activeTask.job].ran > 0

\* the task ids of the models in lexicographic order
TaskIdsInOrder ==
  <<"a1", "b1", "c1", "g1", "h", "r1", "rA", "rB", "t1", "t2">>

IdRank(taskId) == CHOOSE k \in DOMAIN TaskIdsInOrder : TaskIdsInOrder[k] = taskId

\* C27: the job the last dispatch selected is the highest-priority job its
\* component had in the ready queue: none of them has an earlier deadline
\* (EDF), none has a smaller priority integer and none of the same priority
\* has a smaller task id (FPS)
C27_SelectedJobLeadsItsComponent ==
  ghost.chosen # NoTask =>
    LET chosen == ghost.chosen
        component == findComponentById(systemModel, chosen.componentId)[1]
    IN \A i \in DOMAIN ghost.chosenFrom.readyQueue :
         LET other == ghost.chosenFrom.readyQueue[i]
         IN other.componentId = chosen.componentId =>
              /\ component.schedulingAlgorithm = "EDF" =>
                   chosen.deadline <= other.deadline
              /\ component.schedulingAlgorithm = "FPS" =>
                   \/ chosen.priority < other.priority
                   \/ /\ chosen.priority = other.priority
                      /\ IdRank(chosen.taskId) <= IdRank(other.taskId)

\* the head of the sorted ready jobs of a component
HeadOfComponent(component, readyQueue) ==
  SortTasks(component,
            SelectSeq(readyQueue, LAMBDA t : t.componentId = component.id))[1]

\* C28: when the last dispatch found ready jobs of a root and of one of its
\* children, both with their flag true, and selected the head of one of the
\* two, then by the discipline of the root the selected job is not behind
\* the other head: its deadline is not later (EDF root), its priority
\* integer is not larger (FPS root)
C28_RootDisciplineDecidesBetweenHeads ==
  ghost.chosen # NoTask =>
    \A r \in DOMAIN systemModel.rootComponents :
      LET root == systemModel.rootComponents[r]
          queue == ghost.chosenFrom.readyQueue
          Ready(component) ==
            /\ \E i \in DOMAIN queue : queue[i].componentId = component.id
            /\ Available(ghost.chosenFrom.available, component.id)
      IN \A j \in DOMAIN root.childComponents :
           LET child == root.childComponents[j]
           IN (/\ Ready(root) /\ Ready(child)
               /\ ghost.chosen.componentId \in {root.id, child.id}) =>
                \A head \in {HeadOfComponent(root, queue),
                              HeadOfComponent(child, queue)} :
                  /\ root.schedulingAlgorithm = "EDF" =>
                       ghost.chosen.deadline <= head.deadline
                  /\ root.schedulingAlgorithm = "FPS" =>
                       ghost.chosen.priority <= head.priority

\* the tasks generateInitialEvents pushes an arrival event for: those of
\* every component of the tree
ArrivingTasks(sysModel) ==
  LET steps == AllGenerationSteps(sysModel)
  IN Flatten([k \in DOMAIN steps |->
                IF steps[k].op = "tasks" THEN steps[k].component.tasks
                ELSE <<>>])

\* C29: the handler of an arrival event of time t for a task with relative
\* deadline D and period or MIT P appends one job of the task with deadline
\* t + D to the ready queue and pushes one deadline event of time t + D,
\* followed by one arrival event of time t + P when t + P is before the
\* horizon, and nothing else; and when the run has returned, the jobs of
\* every task have arrived at 0, P, 2P, ... below the horizon T, ceil(T / P)
\* jobs in all
C29_ArrivalCreatesJobDeadlineAndNextArrival ==
  /\ (pc = "loop" /\ LoopCondition(state, simulationTime)
      /\ NextEvent(state).type = "arrival") =>
       \A instanceId \in InstanceIds :
         LET event == NextEvent(state)
             s == ShiftEvent(state)
             h == handleTaskArrival(event, systemModel, s, simulationTime,
                                    instanceId, Len(ghost.jobs) + 1)
             tasks == ArrivingTasks(systemModel)
         IN \A i \in DOMAIN tasks :
              tasks[i].id = event.taskId =>
                LET t == event.time
                    D == tasks[i].deadline
                    P == PeriodOf(tasks[i])
                    pushed == SubSeq(h.events, Len(s.events) + 1, Len(h.events))
                IN /\ Len(h.readyQueue) = Len(s.readyQueue) + 1
                   /\ SubSeq(h.readyQueue, 1, Len(s.readyQueue)) = s.readyQueue
                   /\ h.readyQueue[Len(h.readyQueue)].taskId = event.taskId
                   /\ h.readyQueue[Len(h.readyQueue)].deadline = t + D
                   /\ SubSeq(h.events, 1, Len(s.events)) = s.events
                   /\ [k \in DOMAIN pushed |->
                         [type |-> pushed[k].type, time |-> pushed[k].time,
                          taskId |-> pushed[k].taskId]]
                        = <<[type |-> "deadline", time |-> t + D,
                             taskId |-> event.taskId]>>
                          \o (IF t + P < simulationTime
                              THEN <<[type |-> "arrival", time |-> t + P,
                                      taskId |-> event.taskId]>>
                              ELSE <<>>)
  /\ pc = "done" =>
       LET tasks == ArrivingTasks(systemModel)
       IN \A i \in DOMAIN tasks :
            LET P == PeriodOf(tasks[i])
                jobs == {j \in DOMAIN ghost.jobs :
                           ghost.jobs[j].taskId = tasks[i].id}
            IN /\ Cardinality(jobs) = CeilDiv(simulationTime, P)
               /\ {ghost.jobs[j].arrivalTime : j \in jobs}
                    = {k * P : k \in 0..(CeilDiv(simulationTime, P) - 1)}

\* the components below a component, at every depth
RECURSIVE Descendants(_)
Descendants(component) ==
  Flatten([j \in DOMAIN component.childComponents |->
             <<component.childComponents[j]>>
             \o Descendants(component.childComponents[j])])

NonRootComponents(sysModel) ==
  Flatten([r \in DOMAIN sysModel.rootComponents |->
             Descendants(sysModel.rootComponents[r])])

\* the supply events of the component up to the current time have all been
\* handled
SupplySettled(s, componentId) ==
  \A i \in DOMAIN s.events :
    (/\ s.events[i].componentId = componentId
     /\ s.events[i].type \in {"resource-supply-start", "resource-supply-end"})
      => s.events[i].time > s.currentTime

MissedCounter(s, taskId) ==
  IF MapHas(s.missedDeadlinesByTask, taskId)
  THEN MapGet(s.missedDeadlinesByTask, taskId) ELSE 0

\* C31: an iteration of the main loop on a deadline event changes nothing
\* but the missed-deadline counter of the event's task: the ready queue, the
\* active job (with every job's remaining time), the flags, the completed
\* jobs and the recorded times are the same after it, the pending events
\* are the ones that were pending without the event itself, and the
\* counter of every other task is the same
C31_DeadlineEventChangesOnlyTheCounter ==
  [][(pc = "loop" /\ LoopCondition(state, simulationTime)
      /\ NextEvent(state).type = "deadline")
     => /\ state'.readyQueue = state.readyQueue
        /\ state'.activeTask = state.activeTask
        /\ state'.resourceAvailableByComponent =
             state.resourceAvailableByComponent
        /\ state'.completedTasks = state.completedTasks
        /\ state'.responseTimeByTask = state.responseTimeByTask
        /\ state'.executionTimeByComponent = state.executionTimeByComponent
        /\ state'.events = Tail(SortEvents(state.events))
        /\ \A i \in DOMAIN state.missedDeadlinesByTask :
             LET taskId == state.missedDeadlinesByTask[i].key
             IN /\ taskId # NextEvent(state).taskId
                     => MissedCounter(state', taskId) = MissedCounter(state, taskId)
                /\ MissedCounter(state', taskId) >= MissedCounter(state, taskId)
                /\ MissedCounter(state', taskId) <= MissedCounter(state, taskId) + 1
     ]_vars

\* a deadline event has just counted a miss and the late job of its task is
\* still in the ready queue while another job is active
C31_Witness ==
  /\ pc = "loop"
  /\ ghost.lastEvent.type = "deadline"
  /\ MissedCounter(state, ghost.lastEvent.taskId) > 0
  /\ ghost.jobs[ghost.lastEvent.job].late
  /\ \E i \in DOMAIN state.readyQueue :
       state.readyQueue[i].job = ghost.lastEvent.job
  /\ state.activeTask # NoTask

\* the components of the model at every depth, each with its root
ComponentsWithRoot(sysModel) ==
  Flatten([r \in DOMAIN sysModel.rootComponents |->
    LET root == sysModel.rootComponents[r]
        below == Descendants(root)
    IN <<[component |-> root, root |-> root]>> \o
       [j \in DOMAIN below |-> [component |-> below[j], root |-> root]]])

\* the cores a root component is bound to by its id
BoundCores(sysModel, root) ==
  {c \in DOMAIN sysModel.cores : StartsWithCore(root, sysModel.cores[c])}

\* the jobs that wait or execute
JobsInSystem(s) ==
  {s.readyQueue[i] : i \in DOMAIN s.readyQueue}
    \cup (IF s.activeTask # NoTask THEN {s.activeTask} ELSE {})

\* C32: every job that waits or executes, of a root component or of a
\* component below a root, has an execution time and a remaining time of
\* WCET / p, where WCET is the wcet of its task and p the performance factor
\* of the core the root is bound to; the wcet the analysis evaluates the
\* demand of the task with on that core is the same number
C32_JobsExecuteForScaledWcet ==
  \A job \in JobsInSystem(state) :
    LET owners == ComponentsWithRoot(systemModel)
    IN \A o \in DOMAIN owners :
         \A i \in DOMAIN owners[o].component.tasks :
           LET task == owners[o].component.tasks[i]
               bound == BoundCores(systemModel, owners[o].root)
           IN (task.id = job.taskId
               /\ owners[o].component.id = job.componentId
               /\ Cardinality(bound) = 1)
              => \A c \in bound :
                   LET p == systemModel.cores[c].performanceFactor
                       analyzed == AdjustedTasks(owners[o].component, p)[i].wcet
                   IN /\ job.remainingTime * p.n = task.wcet * p.d
                      /\ job.executionTime = job.remainingTime
                      /\ analyzed.n = job.remainingTime * analyzed.d

\* the job of a child component on the core with the performance factor 4/5
\* executes: its task has the wcet 4 and the job a remaining time of 5
C32_Witness ==
  /\ state.activeTask # NoTask
  /\ state.activeTask.componentId = "child-1"
  /\ state.activeTask.remainingTime = 5
  /\ \E c \in DOMAIN systemModel.cores :
       systemModel.cores[c].performanceFactor = Rat(4, 5)
  /\ \E r \in DOMAIN systemModel.rootComponents :
       \E j \in DOMAIN systemModel.rootComponents[r].childComponents :
         \E i \in DOMAIN systemModel.rootComponents[r].childComponents[j].tasks :
           LET task == systemModel.rootComponents[r].childComponents[j].tasks[i]
           IN task.id = state.activeTask.taskId /\ task.wcet = 4

\* C34: when runSimulation has returned, taskResponseTimes has exactly one
\* entry for every task of every component at every depth below a root
\* that is bound to a core, and a job of every such task has arrived at
\* time 0
C34_EveryTaskIsSimulatedAndReported ==
  pc = "done" =>
    LET owners == ComponentsWithRoot(systemModel)
    IN \A o \in DOMAIN owners :
         BoundCores(systemModel, owners[o].root) # {} =>
           \A i \in DOMAIN owners[o].component.tasks :
             LET taskId == owners[o].component.tasks[i].id
             IN /\ Cardinality({k \in DOMAIN results.taskResponseTimes :
                      results.taskResponseTimes[k].taskId = taskId}) = 1
                /\ \E j \in DOMAIN ghost.jobs :
                     /\ ghost.jobs[j].taskId = taskId
                     /\ ghost.jobs[j].arrivalTime = 0

\* C35: when runSimulation has returned, the missedDeadlines reported for a
\* task in taskResponseTimes is the value of the task's missed-deadline
\* counter at the end of the run, whether or not a job of the task completed
C35_ReportedMissesAreTheCounters ==
  pc = "done" =>
    \A k \in DOMAIN results.taskResponseTimes :
      results.taskResponseTimes[k].missedDeadlines
        = MissedCounter(state, results.taskResponseTimes[k].taskId)

\* C36: the main loop handles no event whose time is at or after the
\* horizon: the event handled last has a time before simulationTime, and
\* the clock never exceeds simulationTime
C36_NoEventAtOrAfterTheHorizon ==
  /\ ghost.lastEvent.time < simulationTime
  /\ state.currentTime <= simulationTime

\* the number of places a job is in: its occurrences in the ready queue,
\* the active slot and the completed list
PlacesOfJob(s, j) ==
  Cardinality({i \in DOMAIN s.readyQueue : s.readyQueue[i].job = j})
  + (IF s.activeTask # NoTask /\ s.activeTask.job = j THEN 1 ELSE 0)
  + Cardinality({i \in DOMAIN s.completedTasks : s.completedTasks[i].job = j})

\* C37: between two iterations of the main loop every job an arrival has
\* created is in exactly one place: once in the ready queue, or in the
\* active slot, or once in the completed list
C37_EveryJobIsInOnePlace ==
  \A j \in DOMAIN ghost.jobs : PlacesOfJob(state, j) = 1

(***************************************************************************)
(* Claims about the search of calculateMinimumInterface and the result of  *)
(* analyzeSystem.                                                          *)
(***************************************************************************)
\* the upper end of the interval the binary search starts from
SearchTop(component) ==
  IF component.tasks = <<>> THEN RInt(0)
  ELSE RInt(2 * Max([i \in DOMAIN component.tasks |->
                       component.tasks[i].deadline]))

\* the binary search probes at least one delta and the component fails the
\* test at every delta it probes: maxDelta is never lowered
FailsEveryProbe(component, factor, alpha) ==
  /\ RLess(Precision, SearchTop(component))
  /\ ~RLess(BinarySearch(component, factor, alpha, RInt(0),
                         SearchTop(component)).maxDelta,
            SearchTop(component))

\* alpha after "alpha = Math.min(alpha * 1.2, 1.0)"
RaisedAlpha(alpha) ==
  IF RLess(RMul(alpha, Rat(6, 5)), RInt(1))
  THEN Norm(RMul(alpha, Rat(6, 5))) ELSE RInt(1)

\* C33: when a non-root component fails the test at every delta the binary
\* search probes at the initial alpha, the interface reported for it comes
\* from a search with an alpha of at least 1.2 times the initial one (or 1),
\* and when it fails every probe at alpha = 1 too, analyzeSystem returns
\* isSchedulable = false
C33_FailedSearchRetriesWithRaisedAlpha ==
  analysis.pc = "returned" =>
    \A c \in AnalyzedChildren(systemModel) :
      FailsEveryProbe(c.component, c.factor,
                      InitialAlpha(c.component, c.factor))
      => /\ ~RLess(c.component.alpha,
                   RaisedAlpha(InitialAlpha(c.component, c.factor)))
         /\ FailsEveryProbe(c.component, c.factor, RInt(1))
              => ~analysis.results.isSchedulable

\* the components of the subtrees analyzeSystem has analyzed, at every
\* depth, each with the performance factor of a core its root is analyzed for
AnalyzedComponents(sysModel) ==
  LET visits == RootsToAnalyze(sysModel)
  IN UNION {LET root == sysModel.rootComponents[visits[q].root]
                below == Descendants(root)
            IN {[component |-> c,
                 factor |-> sysModel.cores[visits[q].core].performanceFactor] :
                  c \in {root} \cup {below[j] : j \in DOMAIN below}} :
            q \in DOMAIN visits}

\* C38: when analyzeSystem has returned isSchedulable = true, every component
\* of every analyzed root subtree has a record in componentInterfaces, and
\* with the alpha and delta of each of its records it passes
\* isSchedulableWithInterface on the performance factor of its core
C38_SchedulableResultHasPassingInterfaces ==
  (analysis.pc = "returned" /\ analysis.results.isSchedulable) =>
    \A c \in AnalyzedComponents(systemModel) :
      /\ \E k \in DOMAIN analysis.results.componentInterfaces :
           analysis.results.componentInterfaces[k].componentId = c.component.id
      /\ \A k \in DOMAIN analysis.results.componentInterfaces :
           LET record == analysis.results.componentInterfaces[k]
           IN record.componentId = c.component.id =>
                isSchedulableWithInterface(
                  [c.component EXCEPT !.alpha = record.alpha,
                                      !.delta = record.delta],
                  c.factor)

\* analyzeSystem has returned isSchedulable = true for a model with a root
\* that has tasks and a component two levels below it that has tasks
C38_Witness ==
  /\ analysis.pc = "returned" /\ analysis.results.isSchedulable
  /\ \E r \in DOMAIN systemModel.rootComponents :
       /\ systemModel.rootComponents[r].tasks # <<>>
       /\ \E c \in AnalyzedChildren(systemModel) :
            \E g \in DOMAIN c.component.childComponents :
              c.component.childComponents[g].tasks # <<>>

\* C39: analyzeSystem terminates: no call of calculateMinimumInterface takes
\* a retry that calls it again without end, so the analysis of a root
\* component always returns
C39_AnalyzeSystemTerminates ==
  analysis.pc # "overflow"

====
